---------------------------- MODULE Spec2Model ----------------------------
(***************************************************************************)
(* Document intake: the router (classify_document_type / route_document),  *)
(* the schemas table that holds the authoritative document_type, the       *)
(* template editor that writes that table, and the batch endpoint that     *)
(* runs the per-document workflow under BATCH_SEMAPHORE.                   *)
(*                                                                         *)
(* The backend is described by the architecture document kept with the     *)
(* sources (two revisions: route_document in router.py, and the current    *)
(* classify_document_type in processors/document_classifier.py).  The      *)
(* model follows the current revision and takes from the earlier one the   *)
(* details the current one leaves open (order of the cache lookup and the  *)
(* short-content check, the backfill condition, the cache write).          *)
(***************************************************************************)
EXTENDS Integers, Sequences, FiniteSets, TLC

VARIABLES
    schemas,        \* public.schemas: one row per schema id
    routerCache,    \* ROUTER_CACHE_DIR: cache key -> cached routing decision
    call,           \* the classify calls in flight, one per caller
    everStored,     \* history: the non-null document_type values ever stored per schema
    cleared,        \* history: a live schema's document_type went from a value to null
    prev,           \* history: a returned call and its decision, while the stored types are unchanged
    batch,          \* the /process-batch request: its phase and its number of files
    doc,            \* the batch's documents: state, workflow and stages of each
    permits,        \* BATCH_SEMAPHORE: the free slots
    raised,         \* history: the documents one of whose stages raised
    batch_result,   \* the BatchProcessResult returned
    extractionCache,  \* EXTRACTION_CACHE_DIR: cache key -> the saved result, if any
    extraction,     \* the extract_fields calls in flight, one per caller
    promptCache,    \* public.prompt_cache: the rows
    generation,     \* the generate_system_prompt calls in flight, one per caller
    promptGenerated,  \* history: the prompts the LLM generated per cache key, counted
    firstPersisted,  \* history: the first prompt saved per cache key
    extractStatus,  \* Dashboard, one upload per file: status, 'idle' or 'processing'
    upload,         \* the dashboard's uploads under way: position and outcome of each file
    extraction_results,  \* public.extraction_results: the rows
    visionCache,    \* VISION_CACHE_DIR: cache key -> the saved result, if any
    vision,         \* the vision_generate_markdown calls in flight, one per caller
    usage_counters, \* public.usage_counters: the row of one user and period
    usage_call,     \* the increment_usage_pages calls in flight, one per session
    quota,          \* the p_max_pages the calls pass
    store_failing,  \* the cache stores answer every read and write with an error
    formFields,     \* CreateSchemaModal: fields, the field list being edited
    modal,          \* CreateSchemaModal: open or not, and what the session has done
    schemaContent,  \* the content.fields the modal has written to public.schemas
    page,           \* Dashboard: files, selectedSchemaId, status and the page count
    countPages,     \* Dashboard: the computeTotalPages that has not been cancelled
    fileStatuses,   \* Dashboard: the status shown for each file
    handler         \* Dashboard: the handleExtract in flight

routerVars == <<schemas, routerCache, call, everStored, cleared, prev>>

batchVars == <<batch, doc, permits, raised, batch_result>>

extractVars == <<extractionCache, extraction>>

promptVars == <<promptCache, generation, promptGenerated, firstPersisted>>

stageVars == <<extractVars, promptVars>>

uploadVars == <<upload, extraction_results, extractStatus>>

visionVars == <<visionCache, vision>>

usageVars == <<usage_counters, usage_call, quota>>

faultVars == <<store_failing>>

editorVars == <<formFields, modal, schemaContent>>

pageVars == <<page, countPages, fileStatuses, handler>>

uiVars == <<editorVars, pageVars>>

sideVars == <<uploadVars, visionVars, usageVars, faultVars, uiVars>>

coreVars == <<routerVars, batchVars, stageVars, uploadVars, visionVars, usageVars,
              faultVars>>

vars == <<schemas, routerCache, call, everStored, cleared, prev,
          batch, doc, permits, raised, batch_result, extractionCache, extraction,
          promptCache, generation, promptGenerated, firstPersisted,
          upload, extraction_results, extractStatus, visionCache, vision,
          usage_counters, usage_call, quota, store_failing,
          formFields, modal, schemaContent,
          page, countPages, fileStatuses, handler>>

-----------------------------------------------------------------------------
(* The cache stores: a read or a write that fails *)

\* get: a read that fails gives what a miss gives
cache_read(stored, absent) == IF store_failing THEN absent ELSE stored

\* put: a write that fails leaves the store as it was
cache_write(old, new) == IF store_failing THEN old ELSE new

\* a slip: the error of the store is passed on to the caller
after_cache_access_raising(rec) ==
    IF store_failing THEN [rec EXCEPT !.pc = "raised", !.cache_failed = TRUE] ELSE rec

\* the call goes on after a read or a write; an error of the store is noted
\* (history) and nothing else
after_cache_access(rec) ==
    IF store_failing THEN [rec EXCEPT !.cache_failed = TRUE] ELSE rec

-----------------------------------------------------------------------------
(* Bounds of the model *)

\* template edits per schema (each edit saves a new content)
MaxEdits == 1

\* files of one batch request
MaxDocuments == 6

\* files of one batch request when the results of the extractions are told apart
MaxPayloadDocuments == 3

\* the largest p_max_pages the calls of increment_usage_pages pass
MaxQuota == 3

\* the most fields in one list of the template editor
MaxFields == 2

\* the deepest level of nesting edited
MaxNesting == 2

-----------------------------------------------------------------------------
(* Program constants *)

\* the router samples the first 2,000 characters
SNIPPET_CHARS == 2000

\* fewer non-whitespace characters than this is "short content"
SHORT_CONTENT_CHARS == 50

Null == "null"

NoSchemaId == "none"

GENERIC == "generic"

\* a built-in template (seeded with a document_type) and a user-created one
SchemaIds == {"builtin", "custom"}

DocTypes == {"invoice", "resume"}

Workflows == {"basic", "balanced"}

-----------------------------------------------------------------------------
(* Text.  A text is a sequence of runs <<kind, n>>: n >= 1 equal characters *)
(* of one kind: "x" an ordinary character, "sp" whitespace, "bad" the       *)
(* replacement character.                                                   *)

Run(kind, n) == [kind |-> kind, n |-> n]

RECURSIVE normalize_garbage_characters(_)
\* collapses each run of replacement characters to one occurrence
normalize_garbage_characters(text) ==
    IF text = <<>> THEN <<>>
    ELSE LET r == Head(text)
         IN  <<IF r.kind = "bad" THEN Run("bad", 1) ELSE r>>
             \o normalize_garbage_characters(Tail(text))

RECURSIVE first_chars(_, _)
\* text[:k]
first_chars(text, k) ==
    IF text = <<>> \/ k <= 0 THEN <<>>
    ELSE LET r == Head(text)
         IN  IF r.n >= k THEN <<Run(r.kind, k)>>
             ELSE <<r>> \o first_chars(Tail(text), k - r.n)

RECURSIVE non_whitespace_chars(_)
non_whitespace_chars(text) ==
    IF text = <<>> THEN 0
    ELSE (IF Head(text).kind = "sp" THEN 0 ELSE Head(text).n)
         + non_whitespace_chars(Tail(text))

\* the documents the callers submit: metadata["source"] and page_content
Documents ==
    { [source |-> "report.pdf", ext |-> "pdf", page_content |-> <<Run("x", 50)>>],
      [source |-> "noisy.pdf",  ext |-> "pdf", page_content |-> <<Run("x", 48), Run("bad", 3)>>],
      [source |-> "padded.pdf", ext |-> "pdf", page_content |-> <<Run("sp", 1951), Run("x", 60)>>],
      [source |-> "notes.txt",  ext |-> "txt", page_content |-> <<Run("x", 60)>>] }

build_snippet(document) ==
    first_chars(normalize_garbage_characters(document.page_content), SNIPPET_CHARS)

RECURSIVE all_chars(_)
all_chars(text) ==
    IF text = <<>> THEN 0 ELSE Head(text).n + all_chars(Tail(text))

\* a slip: the length of the snippet, whitespace included
is_short_content_by_length(snippet) == all_chars(snippet) < SHORT_CONTENT_CHARS

\* fewer than 50 non-whitespace characters in the cleaned snippet
is_short_content(snippet) == non_whitespace_chars(snippet) < SHORT_CONTENT_CHARS

\* _determine_workflow(extension, length)
\* a slip: only the length of the content is looked at
determine_workflow_by_length(extension, length) ==
    IF length < SHORT_CONTENT_CHARS THEN "basic" ELSE "balanced"

determine_workflow(extension, length) ==
    IF extension = "txt" \/ length < SHORT_CONTENT_CHARS THEN "basic" ELSE "balanced"

Decision(workflow, document_type) ==
    [workflow |-> workflow, document_type |-> document_type]

generate_cache_key(snippet, schema_id) == <<snippet, schema_id>>

NoDecision == Decision(Null, Null)

NoDocument == [source |-> Null, ext |-> Null, page_content |-> <<>>]

NoPrev == [document |-> NoDocument, schema_id |-> NoSchemaId, decision |-> NoDecision]


-----------------------------------------------------------------------------
(* The schemas table (TypeRegistry) *)

SchemaRow(state, document_type, content) ==
    [state |-> state, document_type |-> document_type, content |-> content]

\* schemas.document_type for the row, NULL when there is no such row
get_schema_document_type(schema_id) ==
    IF schema_id = NoSchemaId THEN Null
    ELSE IF schemas[schema_id].state # "live" THEN Null
    ELSE schemas[schema_id].document_type

\* a slip: a plain update of the column
set_document_type_always(row, document_type) ==
    IF row.state = "live" THEN [row EXCEPT !.document_type = document_type] ELSE row

\* TypeRegistry.setDocumentTypeIfAbsent: the row after the call
setDocumentTypeIfAbsent(row, document_type) ==
    IF row.state = "live" /\ row.document_type = Null
    THEN [row EXCEPT !.document_type = document_type]
    ELSE row

\* a slip: the edit also stores the content's document_type ("custom") in the column
update_schema_row_with_type(row, content) ==
    [row EXCEPT !.content = content, !.document_type = "custom"]

\* the row a template edit leaves: name, description and content are replaced
update_schema_row(row, content) == [row EXCEPT !.content = content]

\* the row a template save inserts
insert_schema_row(content) == SchemaRow("live", Null, content)

TypeView == [s \in SchemaIds |-> get_schema_document_type(s)]

\* history kept next to a change of the table from old to new
StoredAfter(old, new) ==
    [s \in SchemaIds |->
        IF new[s].state = "live" /\ new[s].document_type # Null
        THEN everStored[s] \cup {new[s].document_type}
        ELSE everStored[s]]

ClearedAfter(old, new) ==
    [s \in SchemaIds |->
        cleared[s] \/ (old[s].state = "live" /\ new[s].state = "live"
                       /\ old[s].document_type # Null /\ new[s].document_type = Null)]

ViewAfter(new) ==
    [s \in SchemaIds |-> IF new[s].state # "live" THEN Null ELSE new[s].document_type]

\* every change of the table goes through here
WriteSchemas(new) ==
    /\ schemas' = new
    /\ everStored' = StoredAfter(schemas, new)
    /\ cleared' = ClearedAfter(schemas, new)
    /\ prev' = IF ViewAfter(new) = TypeView THEN prev ELSE NoPrev

CreateSchema(s) ==
    /\ schemas[s].state = "absent"
    /\ WriteSchemas([schemas EXCEPT ![s] = insert_schema_row(0)])
    /\ UNCHANGED <<routerCache, call, batchVars, stageVars, sideVars>>

EditSchema(s) ==
    /\ schemas[s].state = "live"
    /\ s # "builtin"
    /\ schemas[s].content < MaxEdits
    /\ WriteSchemas([schemas EXCEPT ![s] = update_schema_row(@, @.content + 1)])
    /\ UNCHANGED <<routerCache, call, batchVars, stageVars, sideVars>>

\* a slip: the rows that reference the deleted schema go with it
on_delete_cascade(rows, schema_id) == {r \in rows : r.schema_id # schema_id}

\* extraction_results.schema_id REFERENCES public.schemas ON DELETE SET NULL
on_delete_schema(rows, schema_id) ==
    {IF r.schema_id = schema_id THEN [r EXCEPT !.schema_id = Null] ELSE r : r \in rows}

\* the delete mutation of the templates page
DeleteSchema(s) ==
    /\ schemas[s].state = "live"
    /\ s # "builtin"
    /\ WriteSchemas([schemas EXCEPT ![s] = SchemaRow("deleted", Null, 0)])
    /\ extraction_results' = on_delete_schema(extraction_results, s)
    /\ UNCHANGED <<routerCache, call, batchVars, stageVars, upload, extractStatus,
                   visionVars, usageVars, faultVars, uiVars>>

-----------------------------------------------------------------------------
(* The router *)

\* two callers, whose classify calls may overlap in every way
Callers == {"c1", "c2"}

CacheKeys ==
    { generate_cache_key(build_snippet(d), s) :
        d \in Documents, s \in SchemaIds \cup {NoSchemaId} }

LlmError == Decision("error", "error")

LlmOutcomes == [workflow : Workflows, document_type : DocTypes \cup {GENERIC}]
                 \cup {LlmError}

IdleCall ==
    [pc |-> "idle", document |-> NoDocument, schema_id |-> NoSchemaId, schema_type |-> Null,
     decision |-> NoDecision, llm_calls |-> 0, cache_reads |-> 0, cache_writes |-> 0,
     basis |-> NoDecision, llm_failed |-> FALSE, cache_failed |-> FALSE]

\* a slip: the stored type is never taken as the answer
has_authoritative_type_never(schema_type) == FALSE

\* Layer 1 answers when the schema has a stored document_type
has_authoritative_type(schema_type) == schema_type # Null

\* a slip: the short-content answer is given before the stored type is looked at
layer1_decision_short_first(document, schema_type) ==
    IF non_whitespace_chars(build_snippet(document)) < SHORT_CONTENT_CHARS
    THEN Decision("basic", GENERIC)
    ELSE Decision("balanced", schema_type)

\* Layer 1: the stored type is final; the workflow comes from the file
layer1_decision(document, schema_type) ==
    Decision(determine_workflow(document.ext,
                                non_whitespace_chars(build_snippet(document))),
             schema_type)

\* a slip: the error of the LLM call is handed on as it is
make_llm_decision_unguarded(outcome) == outcome

\* _make_llm_decision: the structured answer, or the fallback on any error
make_llm_decision(outcome) ==
    IF outcome = LlmError THEN Decision("balanced", GENERIC) ELSE outcome

\* the schema's type if it has one, otherwise the type the LLM inferred
final_doc_type(schema_type, llm_type) ==
    IF schema_type # Null THEN schema_type ELSE llm_type

\* a slip: the workflow the LLM proposed is kept
layer3_decision_llm_workflow(document, schema_type, llm_decision) ==
    Decision(llm_decision.workflow,
             final_doc_type(schema_type, llm_decision.document_type))

\* the decision of the LLM step: the type reconciled, the workflow per file
layer3_decision(document, schema_type, llm_decision) ==
    Decision(determine_workflow(document.ext,
                                non_whitespace_chars(build_snippet(document))),
             final_doc_type(schema_type, llm_decision.document_type))

\* a slip: whatever type was inferred is written back
should_backfill_any_type(schema_id, schema_type, document_type) ==
    schema_id # NoSchemaId /\ schema_type = Null

\* the inferred type is written back when the schema had none and it is specific
should_backfill(schema_id, schema_type, document_type) ==
    schema_id # NoSchemaId /\ schema_type = Null /\ document_type # GENERIC

\* history: the decision of a call that has just been produced may be remembered
Remembered(next, remember) ==
    IF remember /\ next.pc = "done"
    THEN [document |-> next.document, schema_id |-> next.schema_id,
          decision |-> next.decision]
    ELSE prev

\* the call starts: Layer 1 lookup, then the .txt fast path
Classify_Start(c, d, s, Remember) ==
    /\ call[c].pc = "idle"
    /\ IF s = NoSchemaId THEN TRUE ELSE schemas[s].state # "absent"
    /\ LET t == get_schema_document_type(s)
           started == [IdleCall EXCEPT !.document = d, !.schema_id = s, !.schema_type = t,
                          !.basis = IF prev.document = d /\ prev.schema_id = s
                                    THEN prev.decision ELSE NoDecision]
           next == IF has_authoritative_type(t)
                   THEN [started EXCEPT !.pc = "done", !.decision = layer1_decision(d, t)]
                   ELSE IF d.ext = "txt"
                   THEN [started EXCEPT !.pc = "done", !.decision = Decision("basic", GENERIC)]
                   ELSE [started EXCEPT !.pc = "cache"]
       IN  /\ call' = [call EXCEPT ![c] = next]
           /\ \E remember \in Remember : prev' = Remembered(next, remember)
    /\ UNCHANGED <<schemas, routerCache, everStored, cleared, batchVars, stageVars, sideVars>>

\* Layer 2: the router cache lookup, then the short-content check
Classify_CacheLookup(c, Remember) ==
    /\ call[c].pc = "cache"
    /\ LET snippet == build_snippet(call[c].document)
           cached == cache_read(routerCache[generate_cache_key(snippet, call[c].schema_id)],
                                NoDecision)
           looked == after_cache_access([call[c] EXCEPT !.cache_reads = @ + 1])
           next == IF cached # NoDecision
                   THEN [looked EXCEPT !.pc = "done", !.decision = cached]
                   ELSE IF is_short_content(snippet)
                   THEN [looked EXCEPT !.pc = "done", !.decision = Decision("basic", GENERIC)]
                   ELSE [looked EXCEPT !.pc = "llm"]
       IN  /\ call' = [call EXCEPT ![c] = next]
           /\ \E remember \in Remember : prev' = Remembered(next, remember)
    /\ UNCHANGED <<schemas, routerCache, everStored, cleared, batchVars, stageVars, sideVars>>

\* Layer 3: the LLM router decision
Classify_LlmDecision(c) ==
    /\ call[c].pc = "llm"
    /\ \E outcome \in LlmOutcomes :
          call' = [call EXCEPT ![c] =
                      [@ EXCEPT !.pc = "backfill",
                                !.llm_calls = @ + 1,
                                !.llm_failed = (outcome = LlmError),
                                !.decision = layer3_decision(call[c].document,
                                                             call[c].schema_type,
                                                             make_llm_decision(outcome))]]
    /\ UNCHANGED <<schemas, routerCache, everStored, cleared, prev, batchVars, stageVars, sideVars>>

\* the schema backfill
Classify_Backfill(c) ==
    /\ call[c].pc = "backfill"
    /\ call' = [call EXCEPT ![c].pc = "save"]
    /\ IF should_backfill(call[c].schema_id, call[c].schema_type,
                          call[c].decision.document_type)
       THEN WriteSchemas([schemas EXCEPT ![call[c].schema_id] =
                            setDocumentTypeIfAbsent(@, call[c].decision.document_type)])
       ELSE UNCHANGED <<schemas, everStored, cleared, prev>>
    /\ UNCHANGED <<routerCache, batchVars, stageVars, sideVars>>

\* the router cache write, and the return
Classify_SaveToCache(c, Remember) ==
    /\ call[c].pc = "save"
    /\ routerCache' = cache_write(routerCache,
                                  [routerCache EXCEPT
                                      ![generate_cache_key(build_snippet(call[c].document),
                                                           call[c].schema_id)] =
                                          call[c].decision])
    /\ LET next == after_cache_access([call[c] EXCEPT !.pc = "done",
                                                      !.cache_writes = @ + 1])
       IN  /\ call' = [call EXCEPT ![c] = next]
           /\ \E remember \in Remember : prev' = Remembered(next, remember)
    /\ UNCHANGED <<schemas, everStored, cleared, batchVars, stageVars, sideVars>>

\* the caller takes the decision; the slot is free for the next call
Classify_Return(c) ==
    /\ call[c].pc = "done"
    /\ call' = [call EXCEPT ![c] = IdleCall]
    /\ UNCHANGED <<schemas, routerCache, everStored, cleared, prev, batchVars, stageVars, sideVars>>

-----------------------------------------------------------------------------
(* The batch endpoint and the per-document workflow *)

\* concurrent documents of one batch
BATCH_SEMAPHORE == 5

DocIds == 1 .. MaxDocuments

File(source) == CHOOSE d \in Documents : d.source = source

\* the batch's files: PDFs and text files in turn
BatchDocument(i) == File(IF i % 2 = 1 THEN "report.pdf" ELSE "notes.txt")

\* the batch is sent with a template whose document_type is stored
BatchSchemaId == "builtin"

\* the fields of the template the batch is sent with
Fields == {"number", "total"}

\* an extraction result: a value or null for every field of the template
EmptyResult == [f \in {} |-> Null]

AllNullResult == [f \in Fields |-> Null]

PartialResult == [f \in Fields |-> IF f = "number" THEN "v" ELSE Null]

\* the result is not empty and at least one of its values is not null
has_value(result) == \E f \in DOMAIN result : result[f] # Null

NoStarts == [classification |-> 0, vision |-> 0, prompt |-> 0, extraction |-> 0]

NoFile ==
    [state |-> "None", workflow |-> Null, vision |-> "idle", prompt |-> "idle",
     extraction |-> "idle", error |-> Null, payload |-> EmptyResult, starts |-> NoStarts]

QueuedFile == [NoFile EXCEPT !.state = "Queued"]

Terminal == {"Succeeded", "Failed"}

InFlightStates == {"Classified", "ContentPrepared", "Extracted"}

NoBatchResult ==
    [status |-> Null, total_files |-> 0, successful |-> 0, failed |-> 0,
     results |-> {}, errors |-> {}]

\* a slip: the gate lets every document in
can_acquire_always(free) == TRUE

\* the semaphore admits a document while a slot is free
can_acquire(free) == free > 0

\* a slip: the slot is given back only when the document succeeded
permits_after_normal_exit(free, outcome) ==
    IF outcome = "Failed" THEN free ELSE free + 1

\* leaving the semaphore block gives the slot back, however the block ended
permits_after_exit(free, outcome) == free + 1

\* the document is classified and its workflow's first stages are started
classified_file(i) ==
    LET decision == layer1_decision(BatchDocument(i),
                                    get_schema_document_type(BatchSchemaId))
    IN  [NoFile EXCEPT !.state = "Classified",
                       !.workflow = decision.workflow,
                       !.vision = IF decision.workflow = "balanced" THEN "running" ELSE "idle",
                       !.prompt = "running",
                       !.starts = [classification |-> 1,
                                   vision |-> IF decision.workflow = "balanced" THEN 1 ELSE 0,
                                   prompt |-> 1,
                                   extraction |-> 0]]

\* a slip: the extraction is started as soon as one of the two stages is back
any_stage_finished(d) == d.vision = "done" \/ d.prompt = "done"

\* both stages of the content preparation are back (basic runs no vision stage)
stages_finished(d) == d.vision # "running" /\ d.prompt # "running"

after_stage_return(d) ==
    IF stages_finished(d) THEN [d EXCEPT !.state = "ContentPrepared"] ELSE d

\* a slip: the document is reported as soon as the extraction is back
after_extraction_return_reported(d, payload) ==
    [d EXCEPT !.extraction = "done", !.state = "Succeeded", !.payload = payload]

after_extraction_return(d, payload) ==
    [d EXCEPT !.extraction = "done", !.state = "Extracted", !.payload = payload]

\* a slip: the error is swallowed and the document goes on as if extracted
after_extraction_raise_swallowed(d) ==
    [d EXCEPT !.extraction = "done", !.state = "Extracted"]

\* a slip: the extraction is tried again after it raised
after_extraction_raise_retried(d) ==
    [d EXCEPT !.extraction = "idle", !.state = "ContentPrepared"]

after_extraction_raise(d) ==
    [d EXCEPT !.extraction = "raised", !.state = "Failed", !.error = "extraction failed"]

\* a slip: a batch with a failed document is reported as failed
batch_status_failed_on_any(successful, total) ==
    IF successful = total THEN "completed" ELSE "failed"

batch_status(successful, total) ==
    IF successful = total THEN "completed"
    ELSE IF successful = 0 THEN "failed" ELSE "partial"

\* a slip: one failed document fails the whole batch
aggregate_all_or_nothing(files, total) ==
    LET ok == {i \in 1 .. total : files[i].state = "Succeeded"}
        ko == (1 .. total) \ ok
    IN  IF ko = {}
        THEN [status |-> "completed", total_files |-> total, successful |-> total,
              failed |-> 0, results |-> ok, errors |-> {}]
        ELSE [status |-> "failed", total_files |-> total, successful |-> 0,
              failed |-> total, results |-> {}, errors |-> 1 .. total]

\* a slip: results lists every document, the failed ones too
aggregate_listing_all(files, total) ==
    LET ok == {i \in 1 .. total : files[i].state = "Succeeded"}
        ko == {i \in 1 .. total : files[i].state = "Failed"}
    IN  [status |-> batch_status(Cardinality(ok), total), total_files |-> total,
         successful |-> Cardinality(ok), failed |-> Cardinality(ko),
         results |-> 1 .. total, errors |-> ko]

\* the BatchProcessResult: each document on the side its own outcome puts it
aggregate(files, total) ==
    LET ok == {i \in 1 .. total : files[i].state = "Succeeded"}
        ko == {i \in 1 .. total : files[i].state = "Failed"}
    IN  [status |-> batch_status(Cardinality(ok), total), total_files |-> total,
         successful |-> Cardinality(ok), failed |-> Cardinality(ko),
         results |-> ok, errors |-> ko]

ProcessBatch_Start(n) ==
    /\ batch.phase = "idle"
    /\ batch' = [phase |-> "running", total_files |-> n]
    /\ doc' = [i \in DocIds |-> IF i <= n THEN QueuedFile ELSE NoFile]
    /\ UNCHANGED <<permits, raised, batch_result, routerVars, stageVars, sideVars>>

\* a waiting document takes a free slot, in the order of the request
Orchestrator_Dispatch(i) ==
    /\ batch.phase = "running"
    /\ doc[i].state = "Queued"
    /\ \A j \in 1 .. (i - 1) : doc[j].state # "Queued"
    /\ can_acquire(permits)
    /\ permits' = permits - 1
    /\ doc' = [doc EXCEPT ![i] = classified_file(i)]
    /\ UNCHANGED <<batch, raised, batch_result, routerVars, stageVars, sideVars>>

Vision_Return(i) ==
    /\ doc[i].state = "Classified"
    /\ doc[i].vision = "running"
    /\ doc' = [doc EXCEPT ![i] = after_stage_return([@ EXCEPT !.vision = "done"])]
    /\ UNCHANGED <<batch, permits, raised, batch_result, routerVars, stageVars, sideVars>>

Prompt_Return(i) ==
    /\ doc[i].state = "Classified"
    /\ doc[i].prompt = "running"
    /\ doc' = [doc EXCEPT ![i] = after_stage_return([@ EXCEPT !.prompt = "done"])]
    /\ UNCHANGED <<batch, permits, raised, batch_result, routerVars, stageVars, sideVars>>

Extraction_Start(i) ==
    /\ doc[i].state = "ContentPrepared"
    /\ doc[i].extraction = "idle"
    /\ doc' = [doc EXCEPT ![i] = [@ EXCEPT !.extraction = "running",
                                           !.starts.extraction = @ + 1]]
    /\ UNCHANGED <<batch, permits, raised, batch_result, routerVars, stageVars, sideVars>>

Extraction_Return(i, payload) ==
    /\ doc[i].extraction = "running"
    /\ doc' = [doc EXCEPT ![i] = after_extraction_return(@, payload)]
    /\ UNCHANGED <<batch, permits, raised, batch_result, routerVars, stageVars, sideVars>>

\* the extraction raises: the error is kept with the document, the slot is given back
Extraction_Raise(i) ==
    /\ doc[i].extraction = "running"
    /\ doc' = [doc EXCEPT ![i] = after_extraction_raise(@)]
    /\ raised' = raised \cup {i}
    /\ permits' = permits_after_exit(permits, "Failed")
    /\ UNCHANGED <<batch, batch_result, routerVars, stageVars, sideVars>>

Orchestrator_Succeed(i) ==
    /\ doc[i].state = "Extracted"
    /\ doc' = [doc EXCEPT ![i].state = "Succeeded"]
    /\ permits' = permits_after_exit(permits, "Succeeded")
    /\ UNCHANGED <<batch, raised, batch_result, routerVars, stageVars, sideVars>>

\* every document has ended: the summary is returned
ProcessBatch_Return ==
    /\ batch.phase = "running"
    /\ \A i \in 1 .. batch.total_files : doc[i].state \in Terminal
    /\ batch' = [batch EXCEPT !.phase = "returned"]
    /\ batch_result' = aggregate(doc, batch.total_files)
    /\ UNCHANGED <<doc, permits, raised, routerVars, stageVars, sideVars>>

-----------------------------------------------------------------------------
(* The extraction stage and its cache *)

Extractors == {"e1", "e2"}

ExtractionVariants == {"extract_fields_basic", "extract_fields_balanced"}

ExtractionDocuments == {File("noisy.pdf"), File("notes.txt")}

EmptyMarkdown == <<>>

\* the markdown the vision stage gives for a file, or none
Markdowns(d) == {EmptyMarkdown, <<Run("md:" \o d.source, 1)>>}

\* balanced: the markdown when there is one, else the text of the document;
\* basic: the normalized text
content_to_use(variant, d, markdown) ==
    IF variant = "extract_fields_balanced"
    THEN IF markdown # EmptyMarkdown THEN markdown ELSE d.page_content
    ELSE normalize_garbage_characters(d.page_content)

extraction_cache_key(variant, content) == <<content, variant>>

ExtractionKeys ==
    { extraction_cache_key(v, content_to_use(v, d, m)) :
        v \in ExtractionVariants, d \in ExtractionDocuments,
        m \in UNION {Markdowns(dd) : dd \in ExtractionDocuments} }

NoEntry == <<>>

ExtractionRaise == [f \in {"raise"} |-> "raise"]

ExtractionOutcomes == {PartialResult, AllNullResult, ExtractionRaise}

IdleExtraction ==
    [pc |-> "idle", variant |-> Null, content |-> EmptyMarkdown, result |-> EmptyResult,
     llm_calls |-> 0, from_cache |-> FALSE, cache_failed |-> FALSE]

\* the cached result is returned: balanced wants a value in it, basic takes any
cached_result_usable(variant, cached) ==
    /\ cached # NoEntry
    /\ variant = "extract_fields_balanced" => has_value(cached[1])

\* the fresh result is saved: balanced saves a result with a value, basic any
should_save_result(variant, result) ==
    variant = "extract_fields_balanced" => has_value(result)

\* the call starts; balanced returns {} at once for a template without fields
Extract_Start(e, variant, d, markdown, fields) ==
    /\ extraction[e].pc = "idle"
    /\ extraction' = [extraction EXCEPT ![e] =
          IF variant = "extract_fields_balanced" /\ fields = {}
          THEN [IdleExtraction EXCEPT !.pc = "done", !.variant = variant]
          ELSE [IdleExtraction EXCEPT !.pc = "lookup", !.variant = variant,
                                      !.content = content_to_use(variant, d, markdown)]]
    /\ UNCHANGED <<extractionCache, routerVars, sideVars, batchVars, promptVars>>

Extract_CacheLookup(e) ==
    /\ extraction[e].pc = "lookup"
    /\ LET cached == cache_read(extractionCache[extraction_cache_key(extraction[e].variant,
                                                                     extraction[e].content)],
                                NoEntry)
       IN  extraction' = [extraction EXCEPT ![e] = after_cache_access(
              IF cached_result_usable(extraction[e].variant, cached)
              THEN [@ EXCEPT !.pc = "done", !.result = cached[1], !.from_cache = TRUE]
              ELSE [@ EXCEPT !.pc = "llm"])]
    /\ UNCHANGED <<extractionCache, routerVars, sideVars, batchVars, promptVars>>

Extract_LlmCall(e, outcome) ==
    /\ extraction[e].pc = "llm"
    /\ extraction' = [extraction EXCEPT ![e] =
          IF outcome = ExtractionRaise
          THEN [@ EXCEPT !.pc = "raised", !.llm_calls = @ + 1]
          ELSE [@ EXCEPT !.pc = "save", !.llm_calls = @ + 1, !.result = outcome]]
    /\ UNCHANGED <<extractionCache, routerVars, sideVars, batchVars, promptVars>>

Extract_SaveToCache(e) ==
    /\ extraction[e].pc = "save"
    /\ extractionCache' =
          IF should_save_result(extraction[e].variant, extraction[e].result)
          THEN cache_write(extractionCache,
                           [extractionCache EXCEPT
                               ![extraction_cache_key(extraction[e].variant,
                                                      extraction[e].content)] =
                                   <<extraction[e].result>>])
          ELSE extractionCache
    /\ extraction' = [extraction EXCEPT ![e] =
          IF should_save_result(extraction[e].variant, extraction[e].result)
          THEN after_cache_access([@ EXCEPT !.pc = "done"])
          ELSE [@ EXCEPT !.pc = "done"]]
    /\ UNCHANGED <<routerVars, sideVars, batchVars, promptVars>>

Extract_Return(e) ==
    /\ extraction[e].pc \in {"done", "raised"}
    /\ extraction' = [extraction EXCEPT ![e] = IdleExtraction]
    /\ UNCHANGED <<extractionCache, routerVars, sideVars, batchVars, promptVars>>

-----------------------------------------------------------------------------
(* The prompt generator and the prompt_cache table *)

\* generations counted per cache key (the count stops there)
MaxGenerated == 2

Generators == {"g1", "g2"}

PromptTypes == {"invoice", GENERIC}

\* a template as it reaches the generator: the members of its content object in
\* the order they were written (key_order), the field array in its own order
CustomSchema ==
    [schema_id |-> "custom", tenant_id |-> "t1", key_order |-> <<"description", "fields">>,
     description |-> "an invoice", fields |-> <<"number", "total">>]

\* two tenants hold a template of the same contents, each under its own id
TenantSchemas ==
    {CustomSchema, [CustomSchema EXCEPT !.schema_id = "clone", !.tenant_id = "t2"]}

\* one template written three ways: as saved, with the members of the object
\* in the other order, and with the field array in the other order
WrittenSchemas ==
    {CustomSchema,
     [CustomSchema EXCEPT !.key_order = <<"fields", "description">>],
     [CustomSchema EXCEPT !.fields = <<"total", "number">>]}

PromptSchemas == TenantSchemas \cup WrittenSchemas

\* the member names in the order sort_keys puts them
SortedKeys == <<"description", "fields">>

KeyRank(key) == CHOOSE i \in 1 .. Len(SortedKeys) : SortedKeys[i] = key

sort_keys(keys) == SortSeq(keys, LAMBDA a, b : KeyRank(a) < KeyRank(b))

\* the text of one member: its name and its value, an array element by element
member_text(schema, key) ==
    IF key = "fields" THEN <<key>> \o schema.fields ELSE <<key, schema.description>>

RECURSIVE json_dumps(_, _)
\* json.dumps of the content object with its members in the given order
json_dumps(schema, keys) ==
    IF keys = <<>> THEN <<>>
    ELSE member_text(schema, Head(keys)) \o json_dumps(schema, Tail(keys))

\* a slip: the members are written in the order they came in
canonical_schema_as_written(schema) == json_dumps(schema, schema.key_order)

\* json.dumps(schema, sort_keys=True): members by name, arrays as they are
canonical_schema(schema) == json_dumps(schema, sort_keys(schema.key_order))

\* sha256 of the canonical JSON of the template: equal for equal texts
schema_hash(schema) == <<"sha256", canonical_schema(schema)>>

\* the template as a JSON value: its members by name, whatever order they
\* were written in
template_value(schema) ==
    [schema_id |-> schema.schema_id, tenant_id |-> schema.tenant_id,
     description |-> schema.description, fields |-> schema.fields]

prompt_cache_key(document_type, schema) == <<"sha256", document_type, schema_hash(schema)>>

PromptKeys == {prompt_cache_key(t, sc) : t \in PromptTypes, sc \in PromptSchemas}

\* what a call is made for: a document type and a template
PromptPairs == PromptTypes \X {template_value(sc) : sc \in PromptSchemas}

NoPrompt == "none"

FallbackPrompt == "generic system prompt"

LlmFailure == "failure"

\* what the LLM may answer: one of two texts, or nothing
PromptOutcomes == {"prompt 1", "prompt 2", LlmFailure}

\* "Users can view own and system prompt cache": the rows a tenant may select
visible_rows(rows, tenant_id) ==
    {r \in rows : r.tenant_id = Null \/ r.tenant_id = tenant_id}

\* _get_cached_prompt_from_supabase: the prompt of the row with this key among
\* the rows the caller may select, if any
get_cached_prompt(rows, tenant_id, cache_key) ==
    LET found == {r \in visible_rows(rows, tenant_id) : r.cache_key = cache_key}
    IN  IF found # {} THEN (CHOOSE r \in found : TRUE).system_prompt ELSE NoPrompt

\* uq_prompt_cache_tenant_schema_hash: one row per tenant, schema and content hash
violates_unique_index(rows, row) ==
    \E r \in rows : /\ r.tenant_id = row.tenant_id
                    /\ r.schema_id = row.schema_id
                    /\ r.schema_content_hash = row.schema_content_hash

\* a slip: the row of an earlier save is replaced
save_prompt_replacing(rows, row) ==
    {r \in rows : ~violates_unique_index({r}, row)} \cup {row}

\* a slip: the insert goes through whatever the table holds
save_prompt_unchecked(rows, row) == rows \cup {row}

\* _save_prompt_to_supabase: an insert; a row the unique index refuses is not saved
save_prompt(rows, row) ==
    IF violates_unique_index(rows, row) THEN rows ELSE rows \cup {row}

IdleGeneration ==
    [pc |-> "idle", document_type |-> Null,
     schema |-> [schema_id |-> Null, tenant_id |-> Null, key_order |-> <<>>,
                 description |-> Null, fields |-> <<>>],
     system_prompt |-> NoPrompt, llm_calls |-> 0, basis |-> NoPrompt,
     cache_failed |-> FALSE]

\* a slip: the generic prompt is saved like a generated one
after_prompt_llm_saving_fallback(gen, outcome) ==
    [gen EXCEPT !.pc = "save", !.llm_calls = @ + 1,
                !.system_prompt = IF outcome = LlmFailure THEN FallbackPrompt ELSE outcome]

\* the generated prompt goes on to be saved; a failure gives the generic
\* prompt, which is returned without a save
after_prompt_llm(gen, outcome) ==
    IF outcome = LlmFailure
    THEN [gen EXCEPT !.pc = "done", !.llm_calls = @ + 1, !.system_prompt = FallbackPrompt]
    ELSE [gen EXCEPT !.pc = "save", !.llm_calls = @ + 1, !.system_prompt = outcome]

GenerationKey(g) == prompt_cache_key(generation[g].document_type, generation[g].schema)

GenerationPair(g) == <<generation[g].document_type, template_value(generation[g].schema)>>

Generate_Start(g, document_type, schema) ==
    /\ generation[g].pc = "idle"
    /\ generation' = [generation EXCEPT ![g] =
          [IdleGeneration EXCEPT !.pc = "lookup", !.document_type = document_type,
                                 !.schema = schema,
                                 !.basis = firstPersisted[<<document_type,
                                                            template_value(schema)>>]]]
    /\ UNCHANGED <<promptCache, promptGenerated, firstPersisted,
                   routerVars, sideVars, batchVars, extractVars>>

Generate_CacheLookup(g) ==
    /\ generation[g].pc = "lookup"
    /\ LET cached == cache_read(get_cached_prompt(promptCache,
                                                  generation[g].schema.tenant_id,
                                                  GenerationKey(g)),
                                NoPrompt)
       IN  generation' = [generation EXCEPT ![g] = after_cache_access(
              IF cached # NoPrompt
              THEN [@ EXCEPT !.pc = "done", !.system_prompt = cached]
              ELSE [@ EXCEPT !.pc = "llm"])]
    /\ UNCHANGED <<promptCache, promptGenerated, firstPersisted,
                   routerVars, sideVars, batchVars, extractVars>>

\* the LLM call: the generated prompt goes on to be saved, a failure gives the
\* generic prompt at once
Generate_LlmCall(g, outcome) ==
    /\ generation[g].pc = "llm"
    /\ generation' = [generation EXCEPT ![g] = after_prompt_llm(@, outcome)]
    /\ promptGenerated' =
          IF outcome = LlmFailure \/ promptGenerated[GenerationPair(g)] >= MaxGenerated
          THEN promptGenerated
          ELSE [promptGenerated EXCEPT ![GenerationPair(g)] = @ + 1]
    /\ UNCHANGED <<promptCache, firstPersisted, routerVars, sideVars, batchVars, extractVars>>

Generate_SaveToCache(g) ==
    /\ generation[g].pc = "save"
    /\ LET row == [cache_key |-> GenerationKey(g),
                   document_type |-> generation[g].document_type,
                   tenant_id |-> generation[g].schema.tenant_id,
                   schema_id |-> generation[g].schema.schema_id,
                   schema_content_hash |-> schema_hash(generation[g].schema),
                   system_prompt |-> generation[g].system_prompt]
           saved == cache_write(promptCache, save_prompt(promptCache, row))
       IN  /\ promptCache' = saved
           /\ firstPersisted' =
                 IF firstPersisted[GenerationPair(g)] = NoPrompt /\ row \in saved
                 THEN [firstPersisted EXCEPT ![GenerationPair(g)] = row.system_prompt]
                 ELSE firstPersisted
    /\ generation' = [generation EXCEPT ![g] = after_cache_access([@ EXCEPT !.pc = "done"])]
    /\ UNCHANGED <<promptGenerated, routerVars, sideVars, batchVars, extractVars>>

Generate_Return(g) ==
    /\ generation[g].pc = "done"
    /\ generation' = [generation EXCEPT ![g] = IdleGeneration]
    /\ UNCHANGED <<promptCache, promptGenerated, firstPersisted,
                   routerVars, sideVars, batchVars, extractVars>>

-----------------------------------------------------------------------------
(* The dashboard's handleExtract and the extraction_results table *)

\* the files of one extraction
Uploads == {"a.pdf", "b.pdf"}

\* a file that is not in the list of statuses
NotListed == "none"

IdleUpload == [pc |-> "idle", processed |-> FALSE, schema_id |-> Null]

\* schema_id: selectedSchemaId || null
selected_schema(selectedSchemaId) ==
    IF selectedSchemaId = NoSchemaId THEN Null ELSE selectedSchemaId

\* the foreign key of extraction_results.schema_id: null, or a row of schemas
schema_reference_holds(schema_id) ==
    IF schema_id = Null THEN TRUE ELSE schemas[schema_id].state = "live"

\* the rows of extraction_results written for a file
rows_of(rows, filename) == {r \in rows : r.filename = filename}

\* supabase insert: a new row with its own id
insert_result(rows, filename, schema_id, status) ==
    rows \cup {[id |-> Cardinality(rows) + 1, filename |-> filename,
                schema_id |-> schema_id, status |-> status]}

\* every file is set to processing and its upload starts; the template is
\* one of those the dashboard lists, or none
HandleExtract_Start(selectedSchemaId) ==
    /\ \A f \in Uploads : upload[f].pc = "idle"
    /\ extraction_results = {}
    /\ schema_reference_holds(selected_schema(selectedSchemaId))
    /\ extractStatus = "idle"
    /\ extractStatus' = "processing"
    /\ upload' = [f \in Uploads |->
                    [IdleUpload EXCEPT !.pc = "pending",
                                       !.schema_id = selected_schema(selectedSchemaId)]]
    /\ UNCHANGED <<extraction_results, routerVars, batchVars, stageVars,
                   visionVars, usageVars, faultVars, uiVars>>

\* the catch block of handleExtract: the statuses of the files are left as they are
after_fatal_error(uploads) == uploads

\* the user and the profile are read: without them handleExtract throws and
\* its catch block sets the page to idle; with them every upload starts
LoadProfile_Return(ok) ==
    /\ extractStatus = "processing"
    /\ \A f \in Uploads : upload[f].pc = "pending"
    /\ upload' = IF ok THEN [f \in Uploads |-> [upload[f] EXCEPT !.pc = "uploading"]]
                       ELSE after_fatal_error(upload)
    /\ extractStatus' = IF ok THEN "processing" ELSE "idle"
    /\ UNCHANGED <<extraction_results, routerVars, batchVars, stageVars,
                   visionVars, usageVars, faultVars, uiVars>>

\* uploadDocument returns the result, or throws
UploadDocument_Return(f, ok) ==
    /\ upload[f].pc = "uploading"
    /\ upload' = [upload EXCEPT ![f] = [@ EXCEPT !.pc = IF ok THEN "insert" ELSE "catch",
                                                 !.processed = ok]]
    /\ UNCHANGED <<extraction_results, extractStatus, routerVars, batchVars, stageVars,
                   visionVars, usageVars, faultVars, uiVars>>

\* the completed row is inserted; an insert the database refuses returns no
\* row and does not throw
Insert_Completed(f, saved) ==
    /\ upload[f].pc = "insert"
    /\ saved => schema_reference_holds(upload[f].schema_id)
    /\ extraction_results' =
          IF saved
          THEN insert_result(extraction_results, f, upload[f].schema_id, "completed")
          ELSE extraction_results
    /\ upload' = [upload EXCEPT ![f].pc = IF saved THEN "store" ELSE "finish"]
    /\ UNCHANGED <<extractStatus, routerVars, batchVars, stageVars,
                   visionVars, usageVars, faultVars, uiVars>>

\* localStorage.setItem of the full result: it throws when the quota is
\* exceeded, inside the try block of the file
LocalStorage_SetItem(f, thrown) ==
    /\ upload[f].pc = "store"
    /\ upload' = [upload EXCEPT ![f].pc = IF thrown THEN "catch" ELSE "finish"]
    /\ UNCHANGED <<extraction_results, extractStatus, routerVars, batchVars, stageVars,
                   visionVars, usageVars, faultVars, uiVars>>

\* the file is set to completed
Upload_Finish(f) ==
    /\ upload[f].pc = "finish"
    /\ upload' = [upload EXCEPT ![f].pc = "completed"]
    /\ UNCHANGED <<extraction_results, extractStatus, routerVars, batchVars, stageVars,
                   visionVars, usageVars, faultVars, uiVars>>

\* the catch block of the file: the failed row is inserted, the file is set to error
Upload_Catch(f, saved) ==
    /\ upload[f].pc = "catch"
    /\ saved => schema_reference_holds(upload[f].schema_id)
    /\ extraction_results' =
          IF saved
          THEN insert_result(extraction_results, f, upload[f].schema_id, "failed")
          ELSE extraction_results
    /\ upload' = [upload EXCEPT ![f].pc = "error"]
    /\ UNCHANGED <<extractStatus, routerVars, batchVars, stageVars,
                   visionVars, usageVars, faultVars, uiVars>>

\* Promise.all resolves: the page is set to idle, and after an extraction
\* without error handleReset clears the list of files
HandleExtract_Finish ==
    /\ extractStatus = "processing"
    /\ \A f \in Uploads : upload[f].pc \in {"completed", "error"}
    /\ extractStatus' = "idle"
    /\ upload' = IF \E f \in Uploads : upload[f].pc = "error"
                 THEN upload
                 ELSE [f \in Uploads |-> [upload[f] EXCEPT !.pc = "idle"]]
    /\ UNCHANGED <<extraction_results, routerVars, batchVars, stageVars,
                   visionVars, usageVars, faultVars, uiVars>>

\* the status shown for a file
displayed_status(u) ==
    CASE u.pc = "idle" -> NotListed
      [] u.pc = "pending" -> "pending"
      [] u.pc \in {"completed", "error"} -> u.pc
      [] OTHER -> "processing"

-----------------------------------------------------------------------------
(* vision_generate_markdown and its cache *)

VisionCallers == {"v1", "v2"}

VISION_MODEL == "gpt-4o-mini"

\* the files the stage is called for, by the extension of metadata.file_path
VisionFiles == {"report.pdf", "scan.png", "photo.jpg", "photo.jpeg", "letter.docx"}

file_extension(file_path) ==
    CASE file_path = "report.pdf" -> "pdf"
      [] file_path = "scan.png" -> "png"
      [] file_path = "photo.jpg" -> "jpg"
      [] file_path = "photo.jpeg" -> "jpeg"
      [] OTHER -> "docx"

\* generate_cache_key(file_path, {"step": ..., "model": VISION_MODEL})
vision_cache_key(file_path) == <<file_path, "vision_generate_markdown", VISION_MODEL>>

VisionKeys == {vision_cache_key(f) : f \in VisionFiles}

\* _analyze_markdown_structure: the hints are derived from the markdown
analyze_markdown_structure(markdown) == <<"hints of", markdown>>

VisionResult(markdown) ==
    [markdown_content |-> markdown, structure_hints |-> analyze_markdown_structure(markdown)]

EmptyVisionResult == [markdown_content |-> "", structure_hints |-> <<>>]

NoVisionResult == [markdown_content |-> Null, structure_hints |-> <<>>]

VisionMarkdowns == {"markdown 1", "markdown 2"}

\* what a file path holds when the stage is called: a later upload of the
\* same name has other content
FileContents == {"content 1", "content 2"}

\* the markdown the vision model writes for the pages of the file
markdown_of(content) == IF content = "content 1" THEN "markdown 1" ELSE "markdown 2"

\* a slip: every file is sent as one image
image_count_any_file(file_path, converted) == 1

\* the images made of the file: the pages of a PDF when the conversion
\* works, the file itself when it is a png, jpg or jpeg, none otherwise
image_count(file_path, converted) ==
    IF file_extension(file_path) = "pdf" THEN (IF converted THEN 2 ELSE 0)
    ELSE IF file_extension(file_path) \in {"png", "jpg", "jpeg"} THEN 1
    ELSE 0

\* the cache lookup: a cached result is returned at once
after_vision_lookup(v, cached) ==
    IF cached # NoVisionResult
    THEN [v EXCEPT !.pc = "done", !.cached = cached, !.result = cached]
    ELSE [v EXCEPT !.pc = "images", !.cached = cached]

IdleVision ==
    [pc |-> "idle", file_path |-> Null, content |-> Null, cached |-> NoVisionResult,
     result |-> NoVisionResult, llm_calls |-> 0, cache_failed |-> FALSE]

GenerateMarkdown_Start(v, file_path, content) ==
    /\ vision[v].pc = "idle"
    /\ vision' = [vision EXCEPT ![v] = [IdleVision EXCEPT !.pc = "lookup",
                                                          !.file_path = file_path,
                                                          !.content = content]]
    /\ UNCHANGED <<visionCache, routerVars, batchVars, stageVars, uploadVars, usageVars,
                   faultVars, uiVars>>

GenerateMarkdown_CacheLookup(v) ==
    /\ vision[v].pc = "lookup"
    /\ vision' = [vision EXCEPT ![v] = after_cache_access(
          after_vision_lookup(@, cache_read(visionCache[vision_cache_key(@.file_path)],
                                            NoVisionResult)))]
    /\ UNCHANGED <<visionCache, routerVars, batchVars, stageVars, uploadVars, usageVars,
                   faultVars, uiVars>>

\* the file is turned into images; without an image the empty result is returned
GenerateMarkdown_ConvertToImages(v, converted) ==
    /\ vision[v].pc = "images"
    /\ vision' = [vision EXCEPT ![v] =
          IF image_count(@.file_path, converted) = 0
          THEN [@ EXCEPT !.pc = "done", !.result = EmptyVisionResult]
          ELSE [@ EXCEPT !.pc = "llm"]]
    /\ UNCHANGED <<visionCache, routerVars, batchVars, stageVars, uploadVars, usageVars,
                   faultVars, uiVars>>

\* the vision model call, the structure hints and the cache write
GenerateMarkdown_LlmCall(v, markdown) ==
    /\ vision[v].pc = "llm"
    /\ markdown = markdown_of(vision[v].content)
    /\ vision' = [vision EXCEPT ![v] =
          after_cache_access([@ EXCEPT !.pc = "done", !.llm_calls = @ + 1,
                                       !.result = VisionResult(markdown)])]
    /\ visionCache' = cache_write(visionCache,
                                  [visionCache EXCEPT
                                      ![vision_cache_key(vision[v].file_path)] =
                                          VisionResult(markdown)])
    /\ UNCHANGED <<routerVars, batchVars, stageVars, uploadVars, usageVars,
                   faultVars, uiVars>>

GenerateMarkdown_Return(v) ==
    /\ vision[v].pc = "done"
    /\ vision' = [vision EXCEPT ![v] = IdleVision]
    /\ UNCHANGED <<visionCache, routerVars, batchVars, stageVars, uploadVars, usageVars,
                   faultVars, uiVars>>

-----------------------------------------------------------------------------
(* increment_usage_pages and the usage_counters table *)

\* the database sessions that call the function for one user and period
Sessions == {"s1", "s2"}

NoSession == "none"

NoQuota == -1

\* p_pages: pages added, or given back
PageCounts == (-2) .. (MaxQuota + 1)

\* the row of the user and period: absent, inserted by a transaction that has
\* not committed, or committed; locked_by is the transaction holding its row lock
NoUsageRow == [state |-> "absent", pages_used |-> 0, locked_by |-> NoSession]

greatest(a, b) == IF a >= b THEN a ELSE b

IdleUsageCall ==
    [pc |-> "idle", p_pages |-> 0, p_max_pages |-> 0, current_pages |-> 0, result |-> "none"]

\* a slip: a plain SELECT, which does not wait for the row lock
can_select_row_unlocked(row, s) == TRUE

\* SELECT ... FOR UPDATE waits while another transaction holds the row lock
can_select_row(row, s) == row.locked_by \in {NoSession, s}

\* the call starts; p_pages null or 0 returns true at once
Usage_Begin(s, p_pages, p_max_pages) ==
    /\ usage_call[s].pc = "idle"
    /\ quota \in {NoQuota, p_max_pages}
    /\ quota' = p_max_pages
    /\ usage_call' = [usage_call EXCEPT ![s] =
          [IdleUsageCall EXCEPT !.pc = IF p_pages = 0 THEN "returned" ELSE "select",
                                !.p_pages = p_pages, !.p_max_pages = p_max_pages,
                                !.result = IF p_pages = 0 THEN "true" ELSE "none"]]
    /\ UNCHANGED <<usage_counters, routerVars, batchVars, stageVars, uploadVars, visionVars,
                   faultVars, uiVars>>

\* SELECT pages_used INTO current_pages ... FOR UPDATE: a committed row is
\* locked and read; a row another transaction has not committed is not seen
Usage_SelectForUpdate(s) ==
    /\ usage_call[s].pc = "select"
    /\ IF usage_counters.state = "committed"
       THEN /\ can_select_row(usage_counters, s)
            /\ usage_counters' = [usage_counters EXCEPT !.locked_by = s]
            /\ usage_call' = [usage_call EXCEPT ![s] =
                  [@ EXCEPT !.pc = "found", !.current_pages = usage_counters.pages_used]]
       ELSE /\ usage_call' = [usage_call EXCEPT ![s].pc = "not_found"]
            /\ UNCHANGED usage_counters
    /\ UNCHANGED <<quota, routerVars, batchVars, stageVars, uploadVars, visionVars,
                   faultVars, uiVars>>

\* FOUND: over the cap returns false, otherwise the row is updated
Usage_Update(s) ==
    /\ usage_call[s].pc = "found"
    /\ LET c == usage_call[s]
       IN  IF c.p_pages > 0 /\ c.current_pages + c.p_pages > c.p_max_pages
           THEN /\ usage_call' = [usage_call EXCEPT ![s] =
                      [@ EXCEPT !.pc = "returned", !.result = "false"]]
                /\ UNCHANGED usage_counters
           ELSE /\ usage_counters' = [usage_counters EXCEPT !.pages_used =
                                         greatest(@ + c.p_pages, 0)]
                /\ usage_call' = [usage_call EXCEPT ![s] =
                      [@ EXCEPT !.pc = "returned", !.result = "true"]]
    /\ UNCHANGED <<quota, routerVars, batchVars, stageVars, uploadVars, visionVars,
                   faultVars, uiVars>>

\* NOT FOUND: over the cap returns false, otherwise the row is inserted; the
\* insert waits for an uncommitted row of the same key and raises the unique
\* violation once that row is committed
Usage_Insert(s) ==
    /\ usage_call[s].pc = "not_found"
    /\ LET c == usage_call[s]
       IN  IF c.p_pages > 0 /\ c.p_pages > c.p_max_pages
           THEN /\ usage_call' = [usage_call EXCEPT ![s] =
                      [@ EXCEPT !.pc = "returned", !.result = "false"]]
                /\ UNCHANGED usage_counters
           ELSE /\ usage_counters.state # "uncommitted"
                /\ IF usage_counters.state = "absent"
                   THEN /\ usage_counters' = [state |-> "uncommitted",
                                               pages_used |-> greatest(c.p_pages, 0),
                                               locked_by |-> s]
                        /\ usage_call' = [usage_call EXCEPT ![s] =
                              [@ EXCEPT !.pc = "returned", !.result = "true"]]
                   ELSE /\ usage_call' = [usage_call EXCEPT ![s] =
                              [@ EXCEPT !.pc = "returned", !.result = "unique_violation"]]
                        /\ UNCHANGED usage_counters
    /\ UNCHANGED <<quota, routerVars, batchVars, stageVars, uploadVars, visionVars,
                   faultVars, uiVars>>

\* the transaction of the call ends: its row is committed, its lock released
Usage_Commit(s) ==
    /\ usage_call[s].pc = "returned"
    /\ usage_counters' =
          IF usage_counters.locked_by = s
          THEN [usage_counters EXCEPT !.state = "committed", !.locked_by = NoSession]
          ELSE usage_counters
    /\ usage_call' = [usage_call EXCEPT ![s] = IdleUsageCall]
    /\ UNCHANGED <<quota, routerVars, batchVars, stageVars, uploadVars, visionVars,
                   faultVars, uiVars>>

-----------------------------------------------------------------------------
(* CreateSchemaModal: the template editor *)

\* the field types of the editor that matter for nesting; number, date,
\* boolean and list[string] behave as string does
FieldTypes == {"string", "object", "list[object]"}

ObjectTypes == {"object", "list[object]"}

\* { name: '', type: 'string', description: '', required: false, nested_fields: [] }
\* name, description and required are carried through unchanged and left out;
\* has_nested_fields says whether the nested_fields key is there
NewField == [type |-> "string", has_nested_fields |-> TRUE, nested_fields |-> <<>>]

\* what the modal is opened with: nothing, or the content.fields of a stored
\* template (edit, clone), which the modal takes as it is
NoInitialData == [given |-> FALSE, fields |-> <<>>]

\* a stored template whose content was not written by this editor: the jsonb
\* column takes a string field that carries nested_fields
InheritedTemplate ==
    [given |-> TRUE,
     fields |-> <<[type |-> "string", has_nested_fields |-> TRUE,
                   nested_fields |-> <<NewField>>]>>]

\* a stored template with an object field
ObjectTemplate ==
    [given |-> TRUE,
     fields |-> <<[type |-> "object", has_nested_fields |-> TRUE,
                   nested_fields |-> <<NewField>>]>>]

InitialData == {NoInitialData, InheritedTemplate, ObjectTemplate}

ClosedModal == [isOpen |-> FALSE, retyped |-> FALSE]

NoContent == [saved |-> FALSE, fields |-> <<>>]

\* the paths of the editor, "0", "0.1", ... (counted from 1 here)
Paths == UNION {[1 .. n -> 1 .. MaxFields] : n \in 1 .. MaxNesting}

parent_path(path) == SubSeq(path, 1, Len(path) - 1)

last_index(path) == path[Len(path)]

RECURSIVE is_path(_, _)
\* the path leads to a field that is rendered
is_path(list, path) ==
    /\ path # <<>>
    /\ Head(path) \in 1 .. Len(list)
    /\ \/ Len(path) = 1
       \/ /\ list[Head(path)].type \in ObjectTypes
          /\ is_path(list[Head(path)].nested_fields, Tail(path))

RECURSIVE list_at(_, _)
\* the array the loop over pathParts ends in
list_at(list, parent) ==
    IF parent = <<>> THEN list
    ELSE list_at(list[Head(parent)].nested_fields, Tail(parent))

RECURSIVE replace_list(_, _, _)
replace_list(list, parent, new) ==
    IF parent = <<>> THEN new
    ELSE [list EXCEPT ![Head(parent)] =
             [@ EXCEPT !.nested_fields = replace_list(@.nested_fields, Tail(parent), new)]]

field_at(list, path) == list_at(list, parent_path(path))[last_index(path)]

replace_field(list, path, field) ==
    replace_list(list, parent_path(path),
                 [list_at(list, parent_path(path)) EXCEPT ![last_index(path)] = field])

\* Array.filter((_, i) => i !== idx)
without_index(list, idx) ==
    [i \in 1 .. (Len(list) - 1) |-> IF i < idx THEN list[i] ELSE list[i + 1]]

\* splice(fromIdx, 1) followed by splice(toIdx, 0, movedField)
spliced(list, fromIdx, toIdx) ==
    LET rest == without_index(list, fromIdx)
    IN  [i \in 1 .. Len(list) |->
            IF i < toIdx THEN rest[i]
            ELSE IF i = toIdx THEN list[fromIdx]
            ELSE rest[i - 1]]

\* updateField(path, 'type', value): nested_fields is initialised for object
\* and list[object] and deleted for every other type
retype(field, value) ==
    IF value \in ObjectTypes
    THEN [field EXCEPT !.type = value, !.has_nested_fields = TRUE]
    ELSE [type |-> value, has_nested_fields |-> FALSE, nested_fields |-> <<>>]

RECURSIVE buildFieldSchema_unfiltered(_)
\* a slip: nested_fields is written whatever the type of the field
buildFieldSchema_unfiltered(field) ==
    IF field.has_nested_fields /\ Len(field.nested_fields) > 0
    THEN [type |-> field.type, has_nested_fields |-> TRUE,
          nested_fields |-> [i \in 1 .. Len(field.nested_fields) |->
                                buildFieldSchema_unfiltered(field.nested_fields[i])]]
    ELSE [type |-> field.type, has_nested_fields |-> FALSE, nested_fields |-> <<>>]

RECURSIVE buildFieldSchema(_)
\* the field as it is written to content.fields
buildFieldSchema(field) ==
    IF field.type \in ObjectTypes /\ field.has_nested_fields
       /\ Len(field.nested_fields) > 0
    THEN [type |-> field.type, has_nested_fields |-> TRUE,
          nested_fields |-> [i \in 1 .. Len(field.nested_fields) |->
                                buildFieldSchema(field.nested_fields[i])]]
    ELSE [type |-> field.type, has_nested_fields |-> FALSE, nested_fields |-> <<>>]

\* the modal opens: with the stored template, or with one empty field
Modal_Open(initialData) ==
    /\ ~modal.isOpen
    /\ ~schemaContent.saved
    /\ modal' = [ClosedModal EXCEPT !.isOpen = TRUE]
    /\ formFields' = IF initialData.given THEN initialData.fields ELSE <<NewField>>
    /\ UNCHANGED <<schemaContent, coreVars, pageVars>>

\* addField(): a top-level field
AddField ==
    /\ modal.isOpen
    /\ Len(formFields) < MaxFields
    /\ formFields' = Append(formFields, NewField)
    /\ UNCHANGED <<modal, schemaContent, coreVars, pageVars>>

\* addField(parentPath): the button is rendered under object and list[object] fields
AddNestedField(path) ==
    /\ modal.isOpen
    /\ is_path(formFields, path)
    /\ Len(path) < MaxNesting
    /\ field_at(formFields, path).type \in ObjectTypes
    /\ Len(field_at(formFields, path).nested_fields) < MaxFields
    /\ formFields' = replace_field(formFields, path,
                    [field_at(formFields, path) EXCEPT
                        !.has_nested_fields = TRUE,
                        !.nested_fields = Append(@, NewField)])
    /\ UNCHANGED <<modal, schemaContent, coreVars, pageVars>>

\* removeField(path): the last top-level field cannot be removed
RemoveField(path) ==
    /\ modal.isOpen
    /\ is_path(formFields, path)
    /\ Len(path) = 1 => Len(formFields) > 1
    /\ formFields' = replace_list(formFields, parent_path(path),
                    without_index(list_at(formFields, parent_path(path)), last_index(path)))
    /\ UNCHANGED <<modal, schemaContent, coreVars, pageVars>>

\* updateField(path, 'type', value)
UpdateFieldType(path, value) ==
    /\ modal.isOpen
    /\ is_path(formFields, path)
    /\ formFields' = replace_field(formFields, path, retype(field_at(formFields, path), value))
    /\ modal' = [modal EXCEPT !.retyped =
                    \/ @
                    \/ /\ field_at(formFields, path).type \in ObjectTypes
                       /\ Len(field_at(formFields, path).nested_fields) > 0
                       /\ value \notin ObjectTypes]
    /\ UNCHANGED <<schemaContent, coreVars, pageVars>>

\* moveField(fromPath, toPath): within one parent
MoveField(fromPath, toPath) ==
    /\ modal.isOpen
    /\ is_path(formFields, fromPath)
    /\ is_path(formFields, toPath)
    /\ fromPath # toPath
    /\ parent_path(fromPath) = parent_path(toPath)
    /\ formFields' = replace_list(formFields, parent_path(fromPath),
                    spliced(list_at(formFields, parent_path(fromPath)),
                            last_index(fromPath), last_index(toPath)))
    /\ UNCHANGED <<modal, schemaContent, coreVars, pageVars>>

\* createMutation: content.fields is built and written, the modal closes and
\* the form is reset
Modal_Save ==
    /\ modal.isOpen
    /\ schemaContent' = [saved |-> TRUE,
                         fields |-> [i \in 1 .. Len(formFields) |-> buildFieldSchema(formFields[i])]]
    /\ modal' = [modal EXCEPT !.isOpen = FALSE]
    /\ formFields' = <<NewField>>
    /\ UNCHANGED <<coreVars, pageVars>>

-----------------------------------------------------------------------------
(* Dashboard: the page count of the selected files and the batch handleExtract *)

\* Max 20 pages per upload batch
MAX_BATCH_PAGES == 20

\* the files the user can drop on the page
PageFiles == {"scan.png", "short.pdf", "long.pdf"}

\* f.type === 'application/pdf' || f.name.toLowerCase().endsWith('.pdf')
isPdf(f) == f \in {"short.pdf", "long.pdf"}

\* pdf.numPages of the PDFs
numPages(f) == IF f = "long.pdf" THEN MAX_BATCH_PAGES + 1 ELSE 2

\* the pages of a file: a file that is not a PDF counts as one
page_count(f) == IF isPdf(f) THEN numPages(f) ELSE 1

RECURSIVE sum_pages(_)
\* counts.reduce((a, b) => a + b, 0)
sum_pages(F) ==
    IF F = {} THEN 0
    ELSE LET f == CHOOSE x \in F : TRUE IN page_count(f) + sum_pages(F \ {f})

\* setTotalSelectedPages: the sum of the counts, or files.length when a count failed
total_selected_pages(F, failed) == IF failed THEN Cardinality(F) ELSE sum_pages(F)

isOverPageLimit == page.totalSelectedPages > MAX_BATCH_PAGES

NoTemplate == ""

EmptyPage ==
    [files |-> {}, selectedSchemaId |-> NoTemplate, status |-> "idle",
     isCountingPages |-> FALSE, totalSelectedPages |-> 0]

NoCount == [running |-> FALSE, files |-> {}]

\* how the last handleExtract ended, and what it has sent: submitted counts,
\* for each file, the requests that had the backend process it
IdleHandler ==
    [pc |-> "idle", files |-> {}, ending |-> "none",
     uploads |-> [f \in PageFiles |-> "none"],
     submitted |-> [f \in PageFiles |-> 0]]

\* the files of the request that the backend has processed once more
submitted_once_more(h) ==
    [h EXCEPT !.submitted = [f \in PageFiles |->
                                IF f \in h.files THEN h.submitted[f] + 1 ELSE h.submitted[f]]]

\* setFiles from the dropzone, and the effect on [files]: the count in flight
\* is cancelled and a new one starts
Dropzone_Select(F) ==
    /\ F # page.files
    /\ page' = IF F = {}
               THEN [page EXCEPT !.files = F, !.totalSelectedPages = 0,
                                 !.isCountingPages = FALSE]
               ELSE [page EXCEPT !.files = F, !.isCountingPages = TRUE]
    /\ countPages' = IF F = {} THEN NoCount ELSE [running |-> TRUE, files |-> F]
    /\ UNCHANGED <<fileStatuses, handler, editorVars, coreVars>>

\* computeTotalPages ends: every count resolved, or the count of a PDF rejected
ComputeTotalPages_Return(failed) ==
    /\ countPages.running
    /\ failed => \E f \in countPages.files : isPdf(f)
    /\ page' = [page EXCEPT
                   !.totalSelectedPages = total_selected_pages(countPages.files, failed),
                   !.isCountingPages = FALSE]
    /\ countPages' = NoCount
    /\ UNCHANGED <<fileStatuses, handler, editorVars, coreVars>>

\* a template is chosen
SelectTemplate ==
    /\ page.selectedSchemaId = NoTemplate
    /\ page' = [page EXCEPT !.selectedSchemaId = BatchSchemaId]
    /\ UNCHANGED <<countPages, fileStatuses, handler, editorVars, coreVars>>

\* handleReset: the form is cleared, and with it the page count
reset_page == EmptyPage

\* handleExtract up to the batch request: one Extract action at a time
BatchExtract_Start ==
    /\ handler.pc = "idle"
    /\ page.status # "processing"
    /\ page.files # {}
    /\ ~page.isCountingPages
    /\ ~isOverPageLimit
    /\ page.selectedSchemaId # NoTemplate
    /\ page' = [page EXCEPT !.status = "processing"]
    /\ fileStatuses' = [f \in PageFiles |->
                           IF f \in page.files THEN "processing" ELSE NotListed]
    /\ handler' = [IdleHandler EXCEPT !.pc = "batch", !.files = page.files]
    /\ UNCHANGED <<countPages, editorVars, coreVars>>

\* the statuses of the files after a batch result
updated_statuses(batch_files, succeeded) ==
    [f \in PageFiles |->
        IF f \notin batch_files THEN NotListed
        ELSE IF f \in succeeded THEN "completed" ELSE "error"]

\* uploadDocumentsBatch rejects: the catch block takes over
UploadDocumentsBatch_Reject ==
    /\ handler.pc = "batch"
    /\ handler' = [handler EXCEPT !.pc = "fallback"]
    /\ UNCHANGED <<page, countPages, fileStatuses, editorVars, coreVars>>

\* uploadDocumentsBatch resolves with the result of the backend: the results
\* are stored and the statuses set; localStorage.setItem throws inside the try
\* block, before the statuses are set
UploadDocumentsBatch_Return(succeeded, thrown) ==
    /\ handler.pc = "batch"
    /\ succeeded \subseteq handler.files
    /\ thrown => succeeded # {}
    /\ IF thrown
       THEN /\ handler' = [submitted_once_more(handler) EXCEPT !.pc = "fallback"]
            /\ UNCHANGED <<page, countPages, fileStatuses>>
       ELSE IF succeeded # handler.files
       THEN /\ handler' = [submitted_once_more(handler) EXCEPT
                              !.pc = "idle", !.ending = "some failed"]
            /\ fileStatuses' = updated_statuses(handler.files, succeeded)
            /\ page' = [page EXCEPT !.status = "idle"]
            /\ UNCHANGED countPages
       ELSE /\ handler' = [submitted_once_more(handler) EXCEPT
                              !.pc = "idle", !.ending = "all succeeded"]
            /\ fileStatuses' = [f \in PageFiles |-> NotListed]
            /\ page' = reset_page
            /\ countPages' = NoCount
    /\ UNCHANGED <<editorVars, coreVars>>

\* a slip: the status is set to idle inside the try block of the fallback
status_after_fallback_in_try(current, failed) == IF failed THEN current ELSE "idle"

\* setStatus('idle') after the try and catch of the fallback
status_after_fallback(current, failed) == "idle"

\* the fallback starts: crypto.randomUUID, then uploadDocument for every file;
\* randomUUID is not there outside a secure context and the call throws
Fallback_Start(thrown) ==
    /\ handler.pc = "fallback"
    /\ IF thrown
       THEN /\ handler' = [handler EXCEPT !.pc = "idle", !.ending = "fallback failed"]
            /\ page' = [page EXCEPT !.status = status_after_fallback(@, TRUE)]
       ELSE /\ handler' = [submitted_once_more(handler) EXCEPT
                              !.pc = "uploads",
                              !.uploads = [f \in PageFiles |->
                                              IF f \in handler.files THEN "uploading"
                                              ELSE "none"]]
            /\ UNCHANGED page
    /\ UNCHANGED <<countPages, fileStatuses, editorVars, coreVars>>

\* uploadDocument of the fallback returns and its result is stored, or one of
\* the two throws; the status is set for a file that is still listed
Fallback_UploadReturn(f, ok) ==
    /\ handler.pc = "uploads"
    /\ handler.uploads[f] = "uploading"
    /\ handler' = [handler EXCEPT !.uploads[f] = IF ok THEN "completed" ELSE "error"]
    /\ fileStatuses' = [fileStatuses EXCEPT ![f] =
                           IF @ = NotListed THEN @
                           ELSE IF ok THEN "completed" ELSE "error"]
    /\ UNCHANGED <<page, countPages, editorVars, coreVars>>

\* Promise.all of the fallback resolves
Fallback_Finish ==
    /\ handler.pc = "uploads"
    /\ \A f \in handler.files : handler.uploads[f] # "uploading"
    /\ IF \E f \in handler.files : handler.uploads[f] = "error"
       THEN /\ handler' = [handler EXCEPT !.pc = "idle", !.ending = "fallback some failed"]
            /\ page' = [page EXCEPT !.status = status_after_fallback(@, FALSE)]
            /\ UNCHANGED <<countPages, fileStatuses>>
       ELSE /\ handler' = [handler EXCEPT !.pc = "idle", !.ending = "fallback all succeeded"]
            /\ page' = reset_page
            /\ fileStatuses' = [f \in PageFiles |-> NotListed]
            /\ countPages' = NoCount
    /\ UNCHANGED <<editorVars, coreVars>>

\* the Clear button
HandleReset ==
    /\ page.files # {}
    /\ page' = reset_page
    /\ fileStatuses' = [f \in PageFiles |-> NotListed]
    /\ countPages' = NoCount
    /\ UNCHANGED <<handler, editorVars, coreVars>>

-----------------------------------------------------------------------------
(* The cache stores going out of order and coming back *)

Store_Break ==
    /\ ~store_failing
    /\ store_failing' = TRUE
    /\ UNCHANGED <<routerVars, batchVars, stageVars, uploadVars, visionVars, usageVars,
                   uiVars>>

Store_Repair ==
    /\ store_failing
    /\ store_failing' = FALSE
    /\ UNCHANGED <<routerVars, batchVars, stageVars, uploadVars, visionVars, usageVars,
                   uiVars>>

-----------------------------------------------------------------------------

Init ==
    /\ schemas = [s \in SchemaIds |->
                    IF s = "builtin" THEN SchemaRow("live", "invoice", 0)
                    ELSE SchemaRow("absent", Null, 0)]
    /\ routerCache = [k \in CacheKeys |-> NoDecision]
    /\ call = [c \in Callers |-> IdleCall]
    /\ everStored = [s \in SchemaIds |-> IF s = "builtin" THEN {"invoice"} ELSE {}]
    /\ cleared = [s \in SchemaIds |-> FALSE]
    /\ prev = NoPrev
    /\ batch = [phase |-> "idle", total_files |-> 0]
    /\ doc = [i \in DocIds |-> NoFile]
    /\ permits = BATCH_SEMAPHORE
    /\ raised = {}
    /\ batch_result = NoBatchResult
    /\ extractionCache = [k \in ExtractionKeys |-> NoEntry]
    /\ extraction = [e \in Extractors |-> IdleExtraction]
    /\ promptCache = {}
    /\ generation = [g \in Generators |-> IdleGeneration]
    /\ promptGenerated = [k \in PromptPairs |-> 0]
    /\ firstPersisted = [k \in PromptPairs |-> NoPrompt]
    /\ upload = [f \in Uploads |-> IdleUpload]
    /\ extractStatus = "idle"
    /\ extraction_results = {}
    /\ visionCache = [k \in VisionKeys |-> NoVisionResult]
    /\ vision = [v \in VisionCallers |-> IdleVision]
    /\ usage_counters = NoUsageRow
    /\ usage_call = [s \in Sessions |-> IdleUsageCall]
    /\ quota = NoQuota
    /\ store_failing = FALSE
    /\ formFields = <<NewField>>
    /\ modal = ClosedModal
    /\ schemaContent = NoContent
    /\ page = EmptyPage
    /\ countPages = NoCount
    /\ fileStatuses = [f \in PageFiles |-> NotListed]
    /\ handler = IdleHandler

SchemaNext ==
    \E s \in SchemaIds : CreateSchema(s) \/ EditSchema(s) \/ DeleteSchema(s)

RouterNext(C, Remember) ==
    \E c \in C :
        \/ \E d \in Documents, s \in SchemaIds \cup {NoSchemaId} :
              Classify_Start(c, d, s, Remember)
        \/ Classify_CacheLookup(c, Remember)
        \/ Classify_LlmDecision(c)
        \/ Classify_Backfill(c)
        \/ Classify_SaveToCache(c, Remember)
        \/ Classify_Return(c)

Next == SchemaNext \/ RouterNext(Callers, {FALSE})

\* the router under concurrent callers
Spec == Init /\ [][Next]_vars

SeqNext == SchemaNext \/ RouterNext({"c1"}, BOOLEAN)

\* the router under one caller: its calls follow each other
SeqSpec == Init /\ [][SeqNext]_vars

BatchSteps(Sizes, Payloads) ==
    \/ \E n \in Sizes : ProcessBatch_Start(n)
    \/ \E i \in DocIds :
          \/ Orchestrator_Dispatch(i)
          \/ Vision_Return(i)
          \/ Prompt_Return(i)
          \/ Extraction_Start(i)
          \/ \E payload \in Payloads : Extraction_Return(i, payload)
          \/ Extraction_Raise(i)
          \/ Orchestrator_Succeed(i)
    \/ ProcessBatch_Return

\* batches of every size whose extractions find values or raise
BatchNext == BatchSteps(DocIds, {PartialResult})

\* one batch request
BatchSpec == Init /\ [][BatchNext]_vars

\* every stage call comes back and the event loop runs a task that can go on
BatchFairSpec == BatchSpec /\ WF_vars(BatchNext)

ExtractSteps(E) ==
    \E e \in E :
        \/ \E v \in ExtractionVariants, d \in ExtractionDocuments, fields \in {Fields, {}} :
              \E m \in Markdowns(d) : Extract_Start(e, v, d, m, fields)
        \/ Extract_CacheLookup(e)
        \/ \E outcome \in ExtractionOutcomes : Extract_LlmCall(e, outcome)
        \/ Extract_SaveToCache(e)
        \/ Extract_Return(e)

ExtractNext == ExtractSteps(Extractors)

\* the extraction stage under two callers and a shared cache
ExtractSpec == Init /\ [][ExtractNext]_vars

PromptSteps(G, Types, Templates) ==
    \E g \in G :
        \/ \E t \in Types, sc \in Templates : Generate_Start(g, t, sc)
        \/ Generate_CacheLookup(g)
        \/ \E outcome \in PromptOutcomes : Generate_LlmCall(g, outcome)
        \/ Generate_SaveToCache(g)
        \/ Generate_Return(g)

PromptNext == PromptSteps(Generators, PromptTypes, TenantSchemas)

\* the prompt generator under two callers and the shared table
PromptSpec == Init /\ [][PromptNext]_vars

WrittenNext == PromptSteps(Generators, {"invoice"}, WrittenSchemas)

\* the prompt generator called for one template written in different ways
WrittenSpec == Init /\ [][WrittenNext]_vars

PayloadNext == BatchSteps(1 .. MaxPayloadDocuments, {PartialResult, AllNullResult})

\* small batches whose extractions may also find nothing
PayloadSpec == Init /\ [][PayloadNext]_vars

UploadNext ==
    \/ \E selectedSchemaId \in SchemaIds \cup {NoSchemaId} :
          HandleExtract_Start(selectedSchemaId)
    \/ \E f \in Uploads :
          \/ \E ok \in BOOLEAN : UploadDocument_Return(f, ok)
          \/ \E saved \in BOOLEAN : Insert_Completed(f, saved)
          \/ \E thrown \in BOOLEAN : LocalStorage_SetItem(f, thrown)
          \/ Upload_Finish(f)
          \/ \E saved \in BOOLEAN : Upload_Catch(f, saved)
    \/ \E ok \in BOOLEAN : LoadProfile_Return(ok)
    \/ HandleExtract_Finish

\* one extraction started from the dashboard, its files uploaded in parallel
UploadSpec == Init /\ [][UploadNext]_vars

VisionSteps(V, Files) ==
    \E v \in V :
        \/ \E f \in Files, content \in FileContents : GenerateMarkdown_Start(v, f, content)
        \/ GenerateMarkdown_CacheLookup(v)
        \/ \E converted \in BOOLEAN : GenerateMarkdown_ConvertToImages(v, converted)
        \/ \E markdown \in VisionMarkdowns : GenerateMarkdown_LlmCall(v, markdown)
        \/ GenerateMarkdown_Return(v)

VisionNext == VisionSteps(VisionCallers, VisionFiles)

\* the vision stage under two callers and a shared cache
VisionSpec == Init /\ [][VisionNext]_vars

UsageSteps(Pages) ==
    \E s \in Sessions :
        \/ \E p_pages \in Pages, p_max_pages \in 0 .. MaxQuota :
              Usage_Begin(s, p_pages, p_max_pages)
        \/ Usage_SelectForUpdate(s)
        \/ Usage_Update(s)
        \/ Usage_Insert(s)
        \/ Usage_Commit(s)

UsageNext == UsageSteps(PageCounts)

\* two sessions calling increment_usage_pages for one user and period
UsageSpec == Init /\ [][UsageNext]_vars

\* nothing has been done by the stage: its cache is empty and no call is under way
RouterAtRest ==
    /\ routerCache = [k \in CacheKeys |-> NoDecision]
    /\ call = [c \in Callers |-> IdleCall]

ExtractAtRest ==
    /\ extractionCache = [k \in ExtractionKeys |-> NoEntry]
    /\ extraction = [e \in Extractors |-> IdleExtraction]

PromptAtRest ==
    /\ promptCache = {}
    /\ generation = [g \in Generators |-> IdleGeneration]

VisionAtRest ==
    /\ visionCache = [k \in VisionKeys |-> NoVisionResult]
    /\ vision = [v \in VisionCallers |-> IdleVision]

\* the four stages, each on its own, while the cache stores fail and recover
FaultNext ==
    \/ Store_Break
    \/ Store_Repair
    \/ (ExtractAtRest /\ PromptAtRest /\ VisionAtRest /\ RouterNext({"c1"}, {FALSE}))
    \/ (RouterAtRest /\ PromptAtRest /\ VisionAtRest /\ ExtractSteps({"e1"}))
    \/ (RouterAtRest /\ ExtractAtRest /\ VisionAtRest
          /\ PromptSteps({"g1"}, {"invoice"}, {CustomSchema}))
    \/ (RouterAtRest /\ ExtractAtRest /\ PromptAtRest
          /\ VisionSteps({"v1"}, {"report.pdf", "letter.docx"}))

FaultSpec == Init /\ [][FaultNext]_vars

HandlerNext ==
    \/ UploadDocumentsBatch_Reject
    \/ \E succeeded \in SUBSET PageFiles, thrown \in BOOLEAN :
          UploadDocumentsBatch_Return(succeeded, thrown)
    \/ \E thrown \in BOOLEAN : Fallback_Start(thrown)
    \/ \E f \in PageFiles, ok \in BOOLEAN : Fallback_UploadReturn(f, ok)
    \/ Fallback_Finish

PageNext ==
    \/ \E F \in SUBSET PageFiles : Dropzone_Select(F)
    \/ \E failed \in BOOLEAN : ComputeTotalPages_Return(failed)
    \/ SelectTemplate
    \/ BatchExtract_Start
    \/ HandlerNext
    \/ HandleReset

\* the dashboard: files dropped, pages counted, Extract and Clear clicked
PageSpec == Init /\ [][PageNext]_vars

\* every request of handleExtract resolves or rejects
PageFairSpec == PageSpec /\ WF_vars(HandlerNext)

EditorNext ==
    \/ \E initialData \in InitialData : Modal_Open(initialData)
    \/ AddField
    \/ \E path \in Paths :
          \/ AddNestedField(path)
          \/ RemoveField(path)
          \/ \E value \in FieldTypes : UpdateFieldType(path, value)
          \/ \E toPath \in Paths : MoveField(path, toPath)
    \/ Modal_Save

\* one session of the template editor
EditorSpec == Init /\ [][EditorNext]_vars

HistoryNext == SchemaNext \/ UploadNext

\* one extraction with its rows written, while templates are saved and deleted
HistorySpec == Init /\ [][HistoryNext]_vars

AddPagesNext == UsageSteps(1 .. (MaxQuota + 1))

\* two sessions calling increment_usage_pages, every call adding pages
AddPagesSpec == Init /\ [][AddPagesNext]_vars

AnySizeNext == BatchSteps(0 .. MaxPayloadDocuments, {PartialResult})

\* small batches, the request without a file among them
AnySizeSpec == Init /\ [][AnySizeNext]_vars

-----------------------------------------------------------------------------
(* Properties of the router and of the schemas table *)

CallKey(c) == generate_cache_key(build_snippet(call[c].document), call[c].schema_id)

SnippetNonWs(c) == non_whitespace_chars(build_snippet(call[c].document))

ClassifyIdempotent ==
    \A c \in Callers :
        (call[c].pc = "done" /\ call[c].basis # NoDecision)
            => (call[c].decision = call[c].basis /\ call[c].llm_calls = 0)

\* the second call is answered by the stored type that the first call inferred
\* with the LLM and wrote back
SecondCallAfterBackfill ==
    \E c \in Callers :
        /\ call[c].pc = "done"
        /\ call[c].basis # NoDecision
        /\ call[c].schema_type # Null
        /\ call[c].schema_id = "custom"
        /\ call[c].cache_reads = 0
        /\ routerCache[CallKey(c)] = call[c].basis

-----------------------------------------------------------------------------
(* Properties of the batch endpoint and of the per-document workflow *)

InFlight == {i \in DocIds : doc[i].state \in InFlightStates}

Extracting == {i \in DocIds : doc[i].extraction = "running"}

\* C5: at every instant of a batch at most BATCH_SEMAPHORE documents are in the
\* workflow, hence at most that many extraction calls run at once, however many
\* documents were submitted.
ConcurrencyBound ==
    /\ Cardinality(InFlight) <= BATCH_SEMAPHORE
    /\ Cardinality(Extracting) <= BATCH_SEMAPHORE

\* the gate is full of running extraction calls while a further document waits
GateFullOneWaiting ==
    /\ Cardinality(Extracting) = BATCH_SEMAPHORE
    /\ \E i \in DocIds : doc[i].state = "Queued"

\* C6: when the batch returns, the documents whose extraction did not raise are
\* all in results, the ones whose extraction raised are in errors, the two
\* counts say so, and the request itself has returned a summary.
BatchIsolation ==
    batch.phase = "returned"
        => /\ batch_result.results = (1 .. batch.total_files) \ raised
           /\ batch_result.errors = raised
           /\ batch_result.successful = batch.total_files - Cardinality(raised)
           /\ batch_result.failed = Cardinality(raised)
           /\ batch_result.status \in {"completed", "partial", "failed"}

\* three documents, the second one's extraction raised: two succeeded, one failed
SecondOfThreeFailed ==
    /\ batch.phase = "returned"
    /\ batch.total_files = 3
    /\ raised = {2}
    /\ batch_result.successful = 2 /\ batch_result.failed = 1
    /\ batch_result.results = {1, 3} /\ batch_result.errors = {2}

AllEnded == \A i \in 1 .. batch.total_files : doc[i].state \in Terminal

AllowedTransitions ==
    { <<"None", "Queued">>, <<"Queued", "Classified">>,
      <<"Classified", "ContentPrepared">>, <<"ContentPrepared", "Extracted">>,
      <<"Extracted", "Succeeded">> }
    \cup { <<a, "Failed">> : a \in {"Queued"} \cup InFlightStates }

\* C8: a document's state moves only along Classified, ContentPrepared,
\* Extracted, Succeeded, or from a state that is not terminal to Failed; a
\* document that is Succeeded or Failed is left as it is, no stage starts for it.
DocumentStateMachine ==
    [][\A i \in DocIds :
          /\ doc'[i].state # doc[i].state
                => <<doc[i].state, doc'[i].state>> \in AllowedTransitions
          /\ doc[i].state \in Terminal => doc'[i] = doc[i]]_vars

\* one document has failed, one has succeeded and the others are still at work
FailedAmongRunning ==
    /\ \E i \in DocIds : doc[i].state = "Failed"
    /\ \E i \in DocIds : doc[i].state = "Succeeded"
    /\ \E i \in DocIds : doc[i].state = "Classified"
    /\ \E i \in DocIds : doc[i].state = "ContentPrepared" /\ doc[i].extraction = "running"

\* C9: the extraction of a balanced document has started only if its vision
\* stage and its prompt generation are both back.
ExtractionWaitsForBoth ==
    \A i \in DocIds :
        (doc[i].workflow = "balanced" /\ doc[i].extraction # "idle")
            => (doc[i].vision = "done" /\ doc[i].prompt = "done")

\* balanced documents side by side: one whose vision came back first, one whose
\* prompt came back first, and one whose extraction runs
BothOrdersThenExtraction ==
    /\ \E i \in DocIds : doc[i].workflow = "balanced" /\ doc[i].extraction = "running"
    /\ \E i \in DocIds :
          doc[i].state = "Classified" /\ doc[i].vision = "done" /\ doc[i].prompt = "running"
    /\ \E i \in DocIds :
          doc[i].state = "Classified" /\ doc[i].vision = "running" /\ doc[i].prompt = "done"

-----------------------------------------------------------------------------
(* Properties of the router: the LLM classification call *)

CallWorkflow(c) == determine_workflow(call[c].document.ext, SnippetNonWs(c))

-----------------------------------------------------------------------------
(* Properties of the batch endpoint: the outcome of the extraction *)

\* C14: a document whose extraction call raised is Failed with its error kept,
\* and once the batch has returned it is listed in errors and not in results.
ExtractionFailureRecorded ==
    \A i \in raised :
        /\ doc[i].state = "Failed"
        /\ doc[i].error # Null
        /\ batch.phase = "returned"
              => (i \in batch_result.errors /\ i \notin batch_result.results)

\* a returned batch both of whose extractions raised
BothExtractionsFailed ==
    /\ batch.phase = "returned"
    /\ batch.total_files = 2
    /\ raised = {1, 2}
    /\ batch_result.status = "failed"
    /\ batch_result.errors = {1, 2}

\* C15 as stated: no document listed in results has a payload whose fields are
\* all null.
NoAllNullSuccess ==
    \A i \in batch_result.results : has_value(doc[i].payload)

StageNames == {"classification", "vision", "prompt", "extraction"}

-----------------------------------------------------------------------------
(* Properties of the extraction stage *)

\* C16 as stated: in both variants a result that comes from the cache has at
\* least one value that is not null.
CachedResultHasValue ==
    \A e \in Extractors :
        extraction[e].from_cache => has_value(extraction[e].result)

\* C17 as stated: no entry of the extraction cache is empty or has only null
\* values.
ExtractionCacheHasValues ==
    \A k \in ExtractionKeys :
        extractionCache[k] # NoEntry => has_value(extractionCache[k][1])

-----------------------------------------------------------------------------
(* Properties of the prompt generator *)

PromptGeneratedOnce ==
    \A k \in PromptPairs : promptGenerated[k] <= 1

OneRowPerTypeAndHash ==
    \A r1, r2 \in promptCache :
        (r1.document_type = r2.document_type
         /\ r1.schema_content_hash = r2.schema_content_hash) => r1 = r2

\* C22: prompt_cache holds at most one row for a tenant, a template and a
\* content hash, also when two calls that both missed reach their saves.
OneRowPerTenantSchemaHash ==
    \A r1, r2 \in promptCache :
        (r1.tenant_id = r2.tenant_id /\ r1.schema_id = r2.schema_id
         /\ r1.schema_content_hash = r2.schema_content_hash) => r1 = r2

\* two calls for one template both missed and generated different prompts;
\* both have been through their save and the table holds the row of one
TwoMissesOneRow ==
    \E g1, g2 \in Generators :
        /\ g1 # g2 /\ GenerationPair(g1) = GenerationPair(g2)
        /\ generation[g1].pc = "done" /\ generation[g2].pc = "done"
        /\ generation[g1].llm_calls = 1 /\ generation[g2].llm_calls = 1
        /\ FallbackPrompt \notin {generation[g1].system_prompt, generation[g2].system_prompt}
        /\ generation[g1].system_prompt # generation[g2].system_prompt
        /\ Cardinality(promptCache) = 1

-----------------------------------------------------------------------------
(* The cache key of a template written in different ways *)

\* the same members in the same order, the field arrays one a reordering of
\* the other
fields_reordered(sc1, sc2) ==
    /\ [sc1 EXCEPT !.fields = <<>>] = [sc2 EXCEPT !.fields = <<>>]
    /\ Len(sc1.fields) = Len(sc2.fields)
    /\ {sc1.fields[i] : i \in 1 .. Len(sc1.fields)}
          = {sc2.fields[i] : i \in 1 .. Len(sc2.fields)}

\* C23 as stated: two calls for one document type whose templates differ only
\* in the order of the field array have the same cache key.
ReorderedFieldsSameKey ==
    \A g1, g2 \in Generators :
        (/\ generation[g1].pc # "idle" /\ generation[g2].pc # "idle"
         /\ generation[g1].document_type = generation[g2].document_type
         /\ fields_reordered(generation[g1].schema, generation[g2].schema))
            => GenerationKey(g1) = GenerationKey(g2)

\* C23: two calls for one document type whose templates differ only in the
\* order the members of the object were written in have the same cache key,
\* and a call misses the cache only if no prompt was saved for its template
\* when it started.
ReorderedKeysSameKey ==
    /\ \A g1, g2 \in Generators :
          (/\ generation[g1].pc # "idle" /\ generation[g2].pc # "idle"
           /\ GenerationPair(g1) = GenerationPair(g2))
              => GenerationKey(g1) = GenerationKey(g2)
    /\ \A g \in Generators :
          generation[g].pc \in {"llm", "save"} => generation[g].basis = NoPrompt

\* a call generated and saved a prompt; a second call, started afterwards for
\* the template with its members written in the other order, got it from the cache
ReorderedKeysHit ==
    \E g1, g2 \in Generators :
        /\ generation[g1].pc = "done" /\ generation[g1].llm_calls = 1
        /\ generation[g2].pc = "done" /\ generation[g2].llm_calls = 0
        /\ generation[g2].basis # NoPrompt
        /\ generation[g1].schema.fields = generation[g2].schema.fields
        /\ generation[g1].schema.key_order # generation[g2].schema.key_order
        /\ generation[g2].system_prompt = generation[g1].system_prompt

-----------------------------------------------------------------------------
(* Properties of the BatchProcessResult *)

\* C25: in the summary of a returned batch successful and failed add up to
\* total_files, results has successful entries and errors has failed entries,
\* and every document of the request is in results or in errors, never in both.
BatchResultAddsUp ==
    batch.phase = "returned"
        => /\ batch_result.total_files = batch.total_files
           /\ batch_result.successful + batch_result.failed = batch_result.total_files
           /\ Cardinality(batch_result.results) = batch_result.successful
           /\ Cardinality(batch_result.errors) = batch_result.failed
           /\ batch_result.results \cap batch_result.errors = {}
           /\ batch_result.results \cup batch_result.errors = 1 .. batch.total_files

\* a returned batch of more documents than the gate admits at once, some in
\* results and some in errors
LargeBatchSplit ==
    /\ batch.phase = "returned"
    /\ batch.total_files > BATCH_SEMAPHORE
    /\ batch_result.successful = 4 /\ batch_result.failed = 2
    /\ batch_result.errors = {1, 6}

\* C26 as stated: the status is "completed" exactly when failed = 0, "partial"
\* exactly when 0 < successful < total, "failed" exactly when successful = 0,
\* the request without a file included.
StatusExactlyWhen ==
    batch.phase = "returned"
        => /\ (batch_result.status = "completed") <=> (batch_result.failed = 0)
           /\ (batch_result.status = "partial")
                 <=> (0 < batch_result.successful
                      /\ batch_result.successful < batch_result.total_files)
           /\ (batch_result.status = "failed") <=> (batch_result.successful = 0)

\* C26: for a returned batch of at least one document the status is one of the
\* three values, "completed" exactly when failed = 0, "partial" exactly when
\* 0 < successful < total, "failed" exactly when successful = 0.
StatusOfNonEmptyBatch ==
    (batch.phase = "returned" /\ batch.total_files >= 1)
        => /\ batch_result.status \in {"completed", "partial", "failed"}
           /\ (batch_result.status = "completed") <=> (batch_result.failed = 0)
           /\ (batch_result.status = "partial")
                 <=> (0 < batch_result.successful
                      /\ batch_result.successful < batch_result.total_files)
           /\ (batch_result.status = "failed") <=> (batch_result.successful = 0)

\* a returned batch of three documents, one of them failed: "partial"
PartialBatchReturned ==
    /\ batch.phase = "returned"
    /\ batch.total_files = 3
    /\ batch_result.successful = 2 /\ batch_result.failed = 1
    /\ batch_result.status = "partial"

-----------------------------------------------------------------------------
(* Properties of the extraction_results table *)

\* C27 as stated: a file whose processing has ended has exactly one row in
\* extraction_results, "completed" if its processing succeeded and "failed"
\* otherwise, and no file ever has a second row.
OneRecordPerDocument ==
    \A f \in Uploads :
        /\ Cardinality(rows_of(extraction_results, f)) <= 1
        /\ upload[f].pc \in {"completed", "error"}
              => \E r \in extraction_results :
                    /\ rows_of(extraction_results, f) = {r}
                    /\ r.status = IF upload[f].processed THEN "completed" ELSE "failed"

-----------------------------------------------------------------------------
(* Properties of the schema backfill *)

\* C28: "generic" is never stored as a schema's document_type, and a step that
\* changes the document_type of a schema is the backfill of a call that was
\* given this schema, found no stored type at its lookup and ended with that
\* type, which is not "generic".
BackfillOnlySpecificType ==
    /\ [](\A s \in SchemaIds : GENERIC \notin everStored[s])
    /\ [][\A s \in SchemaIds :
            (schemas[s].state = "live" /\ schemas'[s].state = "live"
               /\ schemas'[s].document_type # schemas[s].document_type)
            => \E c \in Callers :
                  /\ call[c].pc = "backfill" /\ call'[c].pc = "save"
                  /\ call[c].schema_id = s
                  /\ call[c].schema_type = Null
                  /\ call[c].decision.document_type # GENERIC
                  /\ schemas'[s].document_type = call[c].decision.document_type]_vars

\* a call for a schema without a stored type whose LLM step answered and gave
\* "generic" is past its backfill, and the schema still has no type
GenericNotBackfilled ==
    \E c \in Callers :
        /\ call[c].pc = "save"
        /\ call[c].schema_id = "custom"
        /\ call[c].schema_type = Null
        /\ call[c].llm_calls = 1 /\ ~call[c].llm_failed
        /\ call[c].decision.document_type = GENERIC
        /\ schemas["custom"].state = "live"
        /\ schemas["custom"].document_type = Null

-----------------------------------------------------------------------------
(* Properties of the vision stage *)

VisionExtensions == {"pdf", "png", "jpg", "jpeg"}

\* C29: a call makes at most one vision model call, and only after its cache
\* lookup missed for a PDF or png, jpg or jpeg file; a call whose lookup hit
\* returns the cached result and a call for another kind of file returns the
\* empty markdown and hints, both without a model call.
VisionCallOnlyOnMiss ==
    \A v \in VisionCallers :
        /\ vision[v].llm_calls <= 1
        /\ vision[v].llm_calls = 1
              => /\ vision[v].cached = NoVisionResult
                 /\ file_extension(vision[v].file_path) \in VisionExtensions
        /\ vision[v].pc = "llm"
              => /\ vision[v].cached = NoVisionResult
                 /\ file_extension(vision[v].file_path) \in VisionExtensions
        /\ (vision[v].pc = "done" /\ vision[v].cached # NoVisionResult)
              => (vision[v].llm_calls = 0 /\ vision[v].result = vision[v].cached)
        /\ (vision[v].pc = "done"
              /\ file_extension(vision[v].file_path) \notin VisionExtensions)
              => (vision[v].llm_calls = 0 /\ vision[v].result = EmptyVisionResult)

\* one call got the result of an earlier model call from the cache while the
\* other, for a file that is no PDF or image, returned the empty result
CacheHitBesideOtherFile ==
    \E v1, v2 \in VisionCallers :
        /\ vision[v1].pc = "done" /\ vision[v1].cached # NoVisionResult
        /\ vision[v1].result \in {VisionResult(m) : m \in VisionMarkdowns}
        /\ vision[v2].pc = "done" /\ vision[v2].file_path = "letter.docx"
        /\ vision[v2].result = EmptyVisionResult

-----------------------------------------------------------------------------
(* Properties of the usage counter *)

\* C30: whatever the interleaving of the calls of increment_usage_pages for one
\* user and period, all with the same p_max_pages, pages_used is never above
\* p_max_pages and never below 0.
PagesUsedWithinQuota ==
    usage_counters.state # "absent"
        => (0 <= usage_counters.pages_used /\ usage_counters.pages_used <= quota)

\* the row is at the cap; one call adding a page holds the row lock and has
\* been refused while the other waits at its SELECT
CapReachedOneWaiting ==
    \E s1, s2 \in Sessions :
        /\ usage_counters.state = "committed"
        /\ quota > 0 /\ usage_counters.pages_used = quota
        /\ usage_counters.locked_by = s1
        /\ usage_call[s1].pc = "returned" /\ usage_call[s1].result = "false"
        /\ usage_call[s2].pc = "select" /\ usage_call[s2].p_pages > 0

-----------------------------------------------------------------------------
(* Properties of the stages when a cache store fails *)

IncrementIsAtomic ==
    [][\A s \in Sessions :
          (usage_call[s].pc \in {"found", "not_found"} /\ usage_call'[s].pc = "returned")
          => /\ usage_call'[s].result \in {"true", "false"}
             /\ usage_call'[s].result = "true"
                   => usage_counters'.pages_used
                        = usage_counters.pages_used + usage_call[s].p_pages
             /\ usage_call'[s].result = "false"
                   => usage_counters'.pages_used = usage_counters.pages_used]_vars

\* C32: deleting a schema deletes no row of extraction_results: every row is
\* still there with the same id, filename and status, its schema_id null when
\* it referenced the deleted schema and as it was otherwise.
DeleteSchemaKeepsResults ==
    [][\A s \in SchemaIds :
          (schemas[s].state = "live" /\ schemas'[s].state = "deleted")
          => /\ Cardinality(extraction_results') = Cardinality(extraction_results)
             /\ \A r \in extraction_results :
                   [r EXCEPT !.schema_id = IF @ = s THEN Null ELSE @]
                       \in extraction_results']_vars

\* a file extracted with the custom template has its row, and the template is gone
ResultOutlivesSchema ==
    /\ schemas["custom"].state = "deleted"
    /\ \E f \in Uploads :
          /\ upload[f].schema_id = "custom"
          /\ \E r \in extraction_results :
                r.filename = f /\ r.schema_id = Null /\ r.status = "completed"

RECURSIVE nests_only_in_objects(_)
nests_only_in_objects(list) ==
    \A i \in 1 .. Len(list) :
        /\ list[i].type \notin ObjectTypes
              => ~list[i].has_nested_fields /\ list[i].nested_fields = <<>>
        /\ nests_only_in_objects(list[i].nested_fields)

\* C33: whatever was added, removed, retyped and moved in the editor, every
\* field of the saved content whose type is not object or list[object] has no
\* nested fields.
SavedScalarsHaveNoNestedFields ==
    schemaContent.saved => nests_only_in_objects(schemaContent.fields)

\* a field with nested fields was changed to a scalar type, and the template
\* was saved with a scalar field and an object field that has nested fields
RetypedFieldSaved ==
    /\ schemaContent.saved
    /\ modal.retyped
    /\ \E i, j \in 1 .. Len(schemaContent.fields) :
          /\ schemaContent.fields[i].type = "string"
          /\ schemaContent.fields[j].type \in ObjectTypes
          /\ Len(schemaContent.fields[j].nested_fields) > 0

\* C34 as stated: the files of a batch that handleExtract submits have no more
\* than 20 pages together, a file that is not a PDF counting as one page.
SubmittedWithinPageLimit ==
    handler.pc # "idle" => sum_pages(handler.files) <= MAX_BATCH_PAGES

\* C35 as stated: in one Extract action no file is processed by the backend
\* more than once.
SubmittedAtMostOnce ==
    \A f \in PageFiles : handler.submitted[f] <= 1

\* C36 as stated: a decision that is the fallback for a failed LLM
\* classification is not written to the router cache.
FallbackDecisionNotCached ==
    [][\A c \in Callers :
          (call[c].pc = "save" /\ call[c].llm_failed /\ call'[c].pc = "done")
          => routerCache' = routerCache]_vars

\* C37 as stated: the markdown a call returns from the vision cache was
\* produced from the content of the file the call was made for.
CachedMarkdownOfSameContent ==
    \A v \in VisionCallers :
        (vision[v].pc = "done" /\ vision[v].cached # NoVisionResult)
        => vision[v].result.markdown_content = markdown_of(vision[v].content)

\* C38 as stated: when an Extract action has finished and the page is idle
\* again, every file that is listed shows 'completed' or 'error'.
FilesSettledWhenIdle ==
    extractStatus = "idle"
    => \A f \in Uploads :
          displayed_status(upload[f]) \in {NotListed, "completed", "error"}

\* C39: an Extract action that has set the status of the page to
\* 'processing' sets it back to 'idle', whichever way its requests end, as
\* long as each of them resolves or rejects.
ProcessingLeadsToIdle ==
    (page.status = "processing") ~> (page.status = "idle")

\* the batch request failed, the fallback failed as well, and the page is idle
IdleAfterFailedFallback ==
    /\ handler.pc = "idle"
    /\ handler.ending = "fallback failed"
    /\ page.status = "idle"
    /\ page.files # {}

=============================================================================
